---- MODULE Spec2Model ----
(***************************************************************************)
(* Model of GitBatchManager (src/main.py): the batch worker GitWorker, its  *)
(* command runner _execute_git_command, and the sync classifier             *)
(* GitRepoScanner.get_sync_status.                                          *)
(*                                                                          *)
(* The specifications of the module:                                        *)
(*   Spec      the batch worker thread racing with the caller's stop()      *)
(*   SpecExec  _execute_git_command applied to bounded command outcomes     *)
(*   SpecSync  get_sync_status applied to every combination of answers      *)
(*   SpecScan  the scanner thread racing with the caller's stop()           *)
(*   SpecApp   the UI thread, its handlers and the threads they start       *)
(*   SpecRuns  one batch run or one scan, with fair scheduling              *)
(*   SpecPipe  the reading loop of _execute_git_command and its subprocess  *)
(*   SpecTable the handlers that read and write the table and the map       *)
(*   SpecRescan two scans of one directory whose repositories answer alike  *)
(*   SpecTree  a batch run, the working trees it acts on and the statuses   *)
(*             its signals store                                            *)
(***************************************************************************)
EXTENDS Integers, Sequences, FiniteSets, TLC

VARIABLES
    repos,          \* GitWorker.repos: the list of repository paths
    operation,      \* GitWorker.operation: "pull" or "push"
    running,        \* GitWorker.running: the cooperative stop flag
    pc,             \* position of the worker thread inside run()
    i,              \* number of loop iterations already left (enumerate index)
    current_branch, \* local of run()
    before_commit,  \* local of run()
    after_commit,   \* local of run()
    success,        \* local of run()
    trace,          \* history: signals emitted and subprocesses started, in order
    stopIdx,        \* history: iterations whose flag check had passed at stop()
    execArgs,       \* SpecExec: the command outcome handed to _execute_git_command
    execRes,        \* SpecExec: its result
    syncArgs,       \* SpecSync: the answers of the git queries
    syncRes,        \* SpecSync: the result of get_sync_status
    parent_dir,     \* GitRepoScanner.parent_dir: the directory and what it holds
    scan_running,   \* GitRepoScanner.running: the cooperative stop flag
    scan_pc,        \* position of the scanner thread inside run()
    subdirs,        \* local of run(): the entries that are directories
    scan_i,         \* number of iterations over subdirs already left
    descriptor,     \* locals of run(): the fields repo_found_signal carries
    answers,        \* history: what the sub-queries last answered
    inflight,       \* the sub-query whose subprocess runs, or "none"
    scan_trace,     \* history: sub-queries started and signals emitted, in order
    scan_stop,      \* history: where the scanner was when stop() was called
    ui,             \* position of the UI thread: idle, warning, or the wait() it is in
    pending,        \* the arguments of the handler the UI thread is inside
    repo_table,     \* GitBatchManager.repo_table: the paths of the rows, in order
    repositories,   \* GitBatchManager.repositories: the keys of the map
    buttons_enabled,\* state of select_folder_btn, pull_btn and push_btn
    threads,        \* every GitRepoScanner and GitWorker created so far
    git_worker,     \* GitBatchManager.git_worker: index into threads, 0 for None
    scanner,        \* GitBatchManager.scanner: index into threads, 0 for None
    events,         \* queued signals waiting for the UI thread, oldest first
    script,         \* the writes the subprocess has still to do, "o" or "e" each
    out_pipe,       \* lines written to the stdout pipe and not yet read
    err_pipe,       \* lines written to the stderr pipe and not yet read
    alive,          \* the subprocess has not exited: poll() is None
    reader,         \* position of _execute_git_command in its reading of the output
    table_rows,     \* SpecTable: the rows of repo_table, with checkbox and hidden flag
    repo_data,      \* SpecTable: GitBatchManager.repositories, path to descriptor
    sync_filter,    \* SpecTable: the current data of sync_filter_combo
    selected,       \* SpecTable: what the last get_selected_repos() returned
    handled,        \* SpecTable history: the handler that ran last, and its arguments
    scan_no,        \* SpecRescan: 1 in the first scan of the directory, 2 in the second
    oracle,         \* SpecRescan: what the sub-queries answer in each repository
    emitted,        \* SpecRescan history: the descriptors the scan has emitted so far
    first_scan,     \* SpecRescan history: the descriptors the first scan emitted
    tree,           \* SpecTree: per repository, what a porcelain status query would find
    delivered       \* SpecTree: how many signals of the worker the UI thread has handled

scanVars == <<parent_dir, scan_running, scan_pc, subdirs, scan_i, descriptor,
              answers, inflight, scan_trace, scan_stop>>

appVars == <<ui, pending, repo_table, repositories, buttons_enabled, threads,
             git_worker, scanner, events>>

pipeVars == <<script, out_pipe, err_pipe, alive, reader>>

tableVars == <<table_rows, repo_data, sync_filter, selected, handled>>

rescanVars == <<scan_no, oracle, emitted, first_scan>>

treeVars == <<tree, delivered>>

restVars == <<pipeVars, tableVars, rescanVars, treeVars>>

vars == <<repos, operation, running, pc, i, current_branch, before_commit,
          after_commit, success, trace, stopIdx,
          execArgs, execRes, syncArgs, syncRes, scanVars, appVars, restVars>>

workerVars == <<repos, operation, running, pc, i, current_branch, before_commit,
                after_commit, success, trace, stopIdx>>

----------------------------------------------------------------------------
(* Bounds *)

MaxRepos == 2
MaxLines == 2
MaxEntries == 2
MaxRunLen == 1
MaxAppRepos == 1
MaxThreads == 3
MaxScript == 4
PipeCap == 1
MaxRows == 2
MaxRescan == 2

----------------------------------------------------------------------------
(* Values *)

\* The list handed to GitWorker: n distinct paths, in table order.
ReposOfLen(n) == [k \in 1..n |-> k]

Operations == {"pull", "push"}

SeqUpTo(S, n) == UNION {[1..k -> S] : k \in 0..n}

\* Abbreviated commit ids `git rev-parse --short HEAD` can print.  Ids are
\* interchangeable: the id HEAD has before the operation is called c1.
CommitIds == {"c1", "c2"}
BeforeIds == {"c1"}

\* A subprocess.run call returns exit code 0, returns a non-zero exit code,
\* or raises (OSError and the like).
QueryOutcomes == {"ok", "fail", "raise"}

\* Lines a git command can write.  "" is a blank line.
LineBlank      == ""
LinePlain      == "Already up to date."
LinePermission == "git@host: Permission denied (publickey)."
LineAuth       == "fatal: Authentication failed for 'https://host/r'"
LineHost       == "fatal: Could not resolve host: host"
LineConflict   == "CONFLICT (content): Merge conflict in f"
LineNothing    == "nothing to commit, working tree clean"
LineUpToDate   == "Everything up-to-date"

Lines == {LineBlank, LinePlain, LinePermission, LineConflict}

\* `pattern in line` (or `pattern in line.lower()`) of lines 197-207, by line.
Contains(line, pattern) ==
    CASE pattern = "Permission denied"      -> line = LinePermission
      [] pattern = "Authentication failed"  -> line = LineAuth
      [] pattern = "Could not resolve host" -> line = LineHost
      [] pattern = "conflict"               -> line = LineConflict
      [] pattern = "nothing to commit"      -> line = LineNothing
      [] pattern = "up-to-date"             -> line = LineUpToDate
      [] OTHER                              -> FALSE

\* The ordered (pattern, hint) rules of lines 197-208.
HintRules == << <<"Permission denied",      "Permission error">>,
                <<"Authentication failed",  "Authentication failed">>,
                <<"Could not resolve host", "Network error">>,
                <<"conflict",               "Merge conflict detected">>,
                <<"nothing to commit",      "No changes to commit">>,
                <<"up-to-date",             "Already up-to-date">> >>

----------------------------------------------------------------------------
(* Events *)

\* One entry of the history.  k: "progress" | "update" | "finished" are signal
\* emissions; "query" (a subprocess.run call), "cmd" (a subprocess.Popen call)
\* and "exit" (the Popen'ed process has exited) record the subprocesses.  r is
\* the position in repos (1-based), s the status of a signal or the outcome
\* of a command, m the fixed part of the message or the argv, t the total of
\* a progress event.
Ev(k, r, s, m) == [k |-> k, r |-> r, s |-> s, m |-> m, t |-> 0]

Update(r, s, m) == Ev("update", r, s, m)

\* Faulty variant of ProgressEv: the 0-based enumerate index is emitted.
ProgressEvZeroBased(cur, total) ==
    [k |-> "progress", r |-> cur - 1, s |-> "", m |-> <<>>, t |-> total]

ProgressEv(cur, total) == [k |-> "progress", r |-> cur, s |-> "", m |-> <<>>, t |-> total]

\* A subprocess.run call: it returned (with whatever exit code) or it raised.
Query(r, name, outcome) ==
    Ev("query", r, IF outcome = "raise" THEN "raise" ELSE "returned", <<name>>)

FinishedEv == Ev("finished", 0, "", <<>>)

----------------------------------------------------------------------------
(* GitWorker._execute_git_command *)

\* What one Popen'ed command does: exc = Popen itself raises; otherwise the
\* process writes the lines out to stdout and err to stderr, the polling loop
\* of lines 159-171 runs iters times before poll() reports the exit, and the
\* process exits with code rc.
CmdOutcome(exc, rc, out, err, iters) ==
    [exc |-> exc, rc |-> rc, out |-> out, err |-> err, iters |-> iters]

NonBlank(line) == line # LineBlank

\* Lines 159-171: iteration n reads one line of stdout, then one of stderr
\* (readline returns '' at end of file); a line that is empty after strip()
\* is dropped.  lines is output_lines, ev the signals emitted.
RECURSIVE ReadLoop(_, _, _, _)
ReadLoop(r, out, err, n) ==
    IF n = 0 THEN [lines |-> <<>>, ev |-> <<>>]
    ELSE LET prev == ReadLoop(r, out, err, n - 1)
             o    == IF n <= Len(out) THEN out[n] ELSE LineBlank
             e    == IF n <= Len(err) THEN err[n] ELSE LineBlank
         IN  [lines |-> prev.lines \o (IF NonBlank(o) THEN <<o>> ELSE <<>>),
              ev    |-> prev.ev
                        \o (IF NonBlank(o) THEN <<Update(r, "running", <<o>>)>> ELSE <<>>)
                        \o (IF NonBlank(e) THEN <<Update(r, "warning", <<e>>)>> ELSE <<>>)]

\* Lines 175-180: the stdout left after the loop; a line is surfaced only if
\* it is not in output_lines already.
RECURSIVE RestStdout(_, _, _)
RestStdout(r, rem, lines) ==
    IF rem = <<>> THEN [lines |-> lines, ev |-> <<>>]
    ELSE LET l    == Head(rem)
             take == NonBlank(l) /\ ~(\E k \in DOMAIN lines : lines[k] = l)
             nxt  == RestStdout(r, Tail(rem), IF take THEN Append(lines, l) ELSE lines)
         IN  [lines |-> nxt.lines,
              ev    |-> (IF take THEN <<Update(r, "running", <<l>>)>> ELSE <<>>) \o nxt.ev]

\* Lines 182-186: the stderr left after the loop.
RestStderr(r, rem) ==
    LET kept == SelectSeq(rem, NonBlank)
    IN  [k \in 1..Len(kept) |-> Update(r, "warning", <<kept[k]>>)]

\* Lines 197-208: the hint of the first rule one of whose pattern occurs in
\* a line of output_lines; "" when no rule matches.
Hint(output_lines) ==
    LET matching == {k \in DOMAIN HintRules :
                        \E j \in DOMAIN output_lines :
                            Contains(output_lines[j], HintRules[k][1])}
    IN  IF matching = {} THEN ""
        ELSE HintRules[CHOOSE k \in matching : \A k2 \in matching : k <= k2][2]

\* Lines 142-215.  Returns the signals emitted (with the history of the
\* subprocess) and the boolean result.
ExecuteGitCommand(r, cmd, oc) ==
    LET start == <<Update(r, "info", <<"Executing">> \o cmd)>>
    IN  IF oc.exc
        THEN [ev |-> start \o <<Ev("cmd", r, "raise", cmd),
                                Update(r, "error", <<"Exception in git command">>)>>,
              ok |-> FALSE]
        ELSE LET n       == oc.iters
                 loop    == ReadLoop(r, oc.out, oc.err, n)
                 restOut == RestStdout(r, SubSeq(oc.out, n + 1, Len(oc.out)), loop.lines)
                 restErr == RestStderr(r, SubSeq(oc.err, n + 1, Len(oc.err)))
                 output_lines == restOut.lines
                 body    == start \o <<Ev("cmd", r, "started", cmd)>> \o loop.ev
                            \o <<Ev("exit", r, IF oc.rc = 0 THEN "0" ELSE "nonzero", cmd)>>
                            \o restOut.ev \o restErr
             IN  IF oc.rc = 0
                 THEN [ev |-> body \o <<Update(r, "info", <<"Command completed successfully">> \o cmd)>>,
                       ok |-> TRUE]
                 ELSE [ev |-> body \o <<Update(r, "error",
                                   <<"Command failed with code", Hint(output_lines)>>)>>,
                       ok |-> FALSE]

\* Values of the variables of a specification that is not running.
NoExecArgs == [cmd |-> <<>>, oc |-> CmdOutcome(FALSE, 0, <<>>, <<>>, 0)]
NoExecRes  == [done |-> FALSE, ev |-> <<>>, ok |-> FALSE]

----------------------------------------------------------------------------
(* _execute_git_command: the reads of the loop and the pipes of the process *)

\* The subprocess writes a finite number of lines, each to stdout ("o") or to
\* stderr ("e"), and then exits.
Scripts == SeqUpTo({"o", "e"}, MaxScript)

\* The subprocess writes its next line. A pipe holds PipeCap lines: the write
\* to a full pipe blocks until the reader has taken a line out of it.
ProcWrite ==
    /\ alive
    /\ script # <<>>
    /\ IF Head(script) = "o"
       THEN out_pipe < PipeCap /\ out_pipe' = out_pipe + 1 /\ UNCHANGED err_pipe
       ELSE err_pipe < PipeCap /\ err_pipe' = err_pipe + 1 /\ UNCHANGED out_pipe
    /\ script' = Tail(script)
    /\ UNCHANGED <<alive, reader>>

\* The subprocess exits after its last write, which closes its ends of the
\* pipes.
ProcExit ==
    /\ alive
    /\ script = <<>>
    /\ alive' = FALSE
    /\ UNCHANGED <<script, out_pipe, err_pipe, reader>>

\* while process.poll() is None:
ReaderPoll ==
    /\ reader = "poll"
    /\ reader' = IF alive THEN "stdout" ELSE "communicate"
    /\ UNCHANGED <<script, out_pipe, err_pipe, alive>>

\* process.stdout.readline(): returns the next line of the pipe, waits for one
\* while the pipe is empty, and returns '' when the pipe is empty and closed.
ReaderStdout ==
    /\ reader = "stdout"
    /\ out_pipe > 0 \/ ~alive
    /\ out_pipe' = IF out_pipe > 0 THEN out_pipe - 1 ELSE 0
    /\ reader' = "stderr"
    /\ UNCHANGED <<script, err_pipe, alive>>

\* process.stderr.readline(), the same on the other pipe.
ReaderStderr ==
    /\ reader = "stderr"
    /\ err_pipe > 0 \/ ~alive
    /\ err_pipe' = IF err_pipe > 0 THEN err_pipe - 1 ELSE 0
    /\ reader' = "poll"
    /\ UNCHANGED <<script, out_pipe, alive>>

\* process.communicate() after the loop: reads what the pipes still hold; the
\* rest of the function only emits signals and returns True or False.
ReaderCommunicate ==
    /\ reader = "communicate"
    /\ out_pipe' = 0
    /\ err_pipe' = 0
    /\ reader' = "returned"
    /\ UNCHANGED <<script, alive>>

\* Popen has started the subprocess and the loop is about to poll it.
PipeInit ==
    /\ script \in Scripts
    /\ out_pipe = 0
    /\ err_pipe = 0
    /\ alive = TRUE
    /\ reader = "poll"

\* No command is being read.
PipeIdle ==
    /\ script = <<>>
    /\ out_pipe = 0
    /\ err_pipe = 0
    /\ alive = FALSE
    /\ reader = "none"

----------------------------------------------------------------------------
(* GitBatchManager: the rows of the table and the stored descriptors *)

TablePaths == {1, 2}

\* The statuses update_signal carries.
EventStatuses == {"info", "running", "warning", "error", "success"}

\* The data of sync_filter_combo the model uses, and the sync statuses of the
\* repositories it is compared with.
Filters == {"all", "behind", "synced"}

\* The sync status a scan has found for the repository p: the first one is
\* behind its remote, every other one is level with it.
SyncOf(p) == IF p = 1 THEN "behind" ELSE "synced"

\* The entry add_repository stores for a repository.
Stored(p, status) ==
    [name |-> p, branch |-> "main", status |-> status, sync_status |-> SyncOf(p),
     last_commit |-> "2024-01-01 00:00:00", author |-> "author", remote_url |-> ""]

\* A row of the table: the path of column 2, the checkbox of column 0, the
\* text of the status cell of column 4, and whether the row is hidden.
Row(p, checked, hidden, cell) ==
    [path |-> p, checked |-> checked, hidden |-> hidden, cell |-> cell]

Handled(h, p, s) == [h |-> h, path |-> p, status |-> s]

\* add_repository: stores the descriptor and appends a row, checked and shown.
AddRow(p, status) ==
    /\ Len(table_rows) < MaxRows
    /\ repo_data' = [q \in DOMAIN repo_data \cup {p} |->
                        IF q = p THEN Stored(p, status) ELSE repo_data[q]]
    /\ table_rows' = Append(table_rows, Row(p, TRUE, FALSE, status))
    /\ selected' = <<>>
    /\ handled' = Handled("add_repository", p, status)
    /\ UNCHANGED sync_filter

\* The user clicks the checkbox of a row she sees.
ToggleRow(k) ==
    /\ k \in DOMAIN table_rows
    /\ ~table_rows[k].hidden
    /\ table_rows' = [table_rows EXCEPT ![k].checked = ~table_rows[k].checked]
    /\ selected' = <<>>
    /\ handled' = Handled("toggle", table_rows[k].path, "")
    /\ UNCHANGED <<repo_data, sync_filter>>

\* apply_sync_filter, the slot of the combo box: the user has chosen f.
ApplySyncFilter(f) ==
    /\ f # sync_filter
    /\ sync_filter' = f
    /\ table_rows' = [k \in DOMAIN table_rows |->
                   LET sync == IF table_rows[k].path \in DOMAIN repo_data
                               THEN repo_data[table_rows[k].path].sync_status ELSE "unknown"
                       should_show == f = "all" \/ sync = f
                   IN  [table_rows[k] EXCEPT !.hidden = ~should_show]]
    /\ selected' = <<>>
    /\ handled' = Handled("apply_sync_filter", 0, f)
    /\ UNCHANGED repo_data

\* Faulty variant of SelectAllRepos: hidden rows are checked too.
SelectAllReposHiddenToo ==
    /\ table_rows' = [k \in DOMAIN table_rows |-> [table_rows[k] EXCEPT !.checked = TRUE]]
    /\ selected' = <<>>
    /\ handled' = Handled("select_all_repos", 0, "")
    /\ UNCHANGED <<repo_data, sync_filter>>

\* select_all_repos
SelectAllRepos ==
    /\ table_rows' = [k \in DOMAIN table_rows |->
                   IF table_rows[k].hidden THEN table_rows[k] ELSE [table_rows[k] EXCEPT !.checked = TRUE]]
    /\ selected' = <<>>
    /\ handled' = Handled("select_all_repos", 0, "")
    /\ UNCHANGED <<repo_data, sync_filter>>

\* deselect_all_repos
DeselectAllRepos ==
    /\ table_rows' = [k \in DOMAIN table_rows |->
                   IF table_rows[k].hidden THEN table_rows[k] ELSE [table_rows[k] EXCEPT !.checked = FALSE]]
    /\ selected' = <<>>
    /\ handled' = Handled("deselect_all_repos", 0, "")
    /\ UNCHANGED <<repo_data, sync_filter>>

\* The paths get_selected_repos collects from the rows k, k+1, ...
RECURSIVE SelectedFrom(_)
SelectedFrom(k) ==
    IF k > Len(table_rows) THEN <<>>
    ELSE IF table_rows[k].hidden THEN SelectedFrom(k + 1)
    ELSE IF table_rows[k].checked THEN <<table_rows[k].path>> \o SelectedFrom(k + 1)
    ELSE SelectedFrom(k + 1)

\* Faulty variant of GetSelectedRepos: hidden rows are not skipped.
GetSelectedReposHiddenToo ==
    /\ selected' = LET Checked(r) == r.checked
                       sel == SelectSeq(table_rows, Checked)
                   IN  [k \in DOMAIN sel |-> sel[k].path]
    /\ handled' = Handled("get_selected_repos", 0, "")
    /\ UNCHANGED <<table_rows, repo_data, sync_filter>>

\* get_selected_repos
GetSelectedRepos ==
    /\ selected' = SelectedFrom(1)
    /\ handled' = Handled("get_selected_repos", 0, "")
    /\ UNCHANGED <<table_rows, repo_data, sync_filter>>

\* The first row of the table with the path p, 0 when there is none.
FirstRow(p) ==
    IF \E k \in DOMAIN table_rows : table_rows[k].path = p
    THEN CHOOSE k \in DOMAIN table_rows :
            table_rows[k].path = p /\ \A j \in 1..(k - 1) : table_rows[j].path # p
    ELSE 0

\* Faulty variant of UpdateRepoStatus: an error is stored like a success.
UpdateRepoStatusStoresError(p, status) ==
    /\ LET k == FirstRow(p)
       IN  IF k = 0 \/ status \notin {"success", "error"} \/ p \notin DOMAIN repo_data
           THEN UNCHANGED <<table_rows, repo_data>>
           ELSE /\ repo_data' = [repo_data EXCEPT ![p].status =
                                    IF status = "success" THEN "clean" ELSE "error"]
                /\ table_rows' = [table_rows EXCEPT ![k].cell =
                               IF status = "success" THEN "clean" ELSE "error"]
    /\ selected' = <<>>
    /\ handled' = Handled("update_repo_status", p, status)
    /\ UNCHANGED sync_filter

\* update_repo_status(repo_path, message, status): the slot of update_signal.
\* A success stores the status "clean" and shows it in the first row with the
\* path; an error is shown in the row and not stored; every other status only
\* writes to the log. self.repositories[repo_path] raises KeyError for a row
\* whose path has no entry, which ends the slot.
UpdateRepoStatus(p, status) ==
    /\ LET k == FirstRow(p)
       IN  IF k = 0 \/ status \notin {"success", "error"}
           THEN UNCHANGED <<table_rows, repo_data>>
           ELSE IF status = "success"
           THEN IF p \in DOMAIN repo_data
                THEN /\ repo_data' = [repo_data EXCEPT ![p].status = "clean"]
                     /\ table_rows' = [table_rows EXCEPT ![k].cell = "clean"]
                ELSE UNCHANGED <<table_rows, repo_data>>
           ELSE /\ table_rows' = [table_rows EXCEPT ![k].cell = "error"]
                /\ UNCHANGED repo_data
    /\ selected' = <<>>
    /\ handled' = Handled("update_repo_status", p, status)
    /\ UNCHANGED sync_filter

\* The window after init_ui: an empty table, an empty map, the filter "all".
TableInit ==
    /\ table_rows = <<>>
    /\ repo_data = <<>>
    /\ sync_filter = "all"
    /\ selected = <<>>
    /\ handled = Handled("init_ui", 0, "")

\* No window.
TableIdle ==
    /\ table_rows = <<>>
    /\ repo_data = <<>>
    /\ sync_filter = "none"
    /\ selected = <<>>
    /\ handled = Handled("none", 0, "")

\* No scan is being repeated.
RescanIdle ==
    /\ scan_no = 0
    /\ oracle = <<>>
    /\ emitted = <<>>
    /\ first_scan = <<>>

\* No working tree is followed.
TreeIdle ==
    /\ tree = <<>>
    /\ delivered = 0

RestIdle == PipeIdle /\ TableIdle /\ RescanIdle /\ TreeIdle

----------------------------------------------------------------------------
(* GitRepoScanner.get_sync_status *)

\* What a subprocess.run call of get_sync_status can raise: TimeoutExpired
\* (only the fetch has a timeout), ValueError (UnicodeDecodeError when the
\* output is decoded) and OSError (the process cannot be started).
Exceptions == {"TimeoutExpired", "ValueError", "OSError"}

\* Line 409: except (subprocess.SubprocessError, subprocess.TimeoutExpired,
\* ValueError).
CaughtExceptions == {"SubprocessError", "TimeoutExpired", "ValueError"}

\* The answers of the six git calls.  "ok" is exit code 0, "fail" a non-zero
\* exit code; a commit id or a count text is the stdout of a call that exited
\* with code 0.
FetchAnswers  == {"ok", "fail", "TimeoutExpired", "ValueError", "OSError"}
VerifyAnswers == {"ok", "fail", "ValueError", "OSError"}
HashAnswers   == {"fail", "ValueError", "OSError"} \cup CommitIds
CountTexts    == {"", "0", "2", "junk"}
CountAnswers  == {"fail", "ValueError", "OSError"} \cup CountTexts

SyncAnswers ==
    [fetch : FetchAnswers, check : VerifyAnswers, local : HashAnswers,
     remote : HashAnswers, ahead : CountAnswers, behind : CountAnswers]

\* int(text.strip() or 0) of lines 397-398; -1 stands for the ValueError int()
\* raises on a text that is not a number.
ParseCount(text) ==
    CASE text = ""  -> 0
      [] text = "0" -> 0
      [] text = "2" -> 2
      [] OTHER      -> -1

\* Lines 409-412: what becomes of an exception raised inside the try block.
\* "EXCEPTION" stands for an exception that leaves get_sync_status.
SyncExcept(exc) ==
    IF exc \in CaughtExceptions THEN "unknown" ELSE "EXCEPTION"

\* Faulty variant of SyncVerdict: the two counts change places.
SyncVerdictSwapped(ahead_text, behind_text) ==
    LET ahead_count  == ParseCount(behind_text)
        behind_count == ParseCount(ahead_text)
    IN  IF ahead_count < 0 \/ behind_count < 0 THEN SyncExcept("ValueError")
        ELSE IF ahead_count > 0 /\ behind_count > 0 THEN "diverged"
        ELSE IF ahead_count > 0 THEN "ahead"
        ELSE IF behind_count > 0 THEN "behind"
        ELSE "synced"

\* Lines 396-407, once both counts were read with exit code 0.
SyncVerdict(ahead_text, behind_text) ==
    LET ahead_count  == ParseCount(ahead_text)
        behind_count == ParseCount(behind_text)
    IN  IF ahead_count < 0 \/ behind_count < 0 THEN SyncExcept("ValueError")
        ELSE IF ahead_count > 0 /\ behind_count > 0 THEN "diverged"
        ELSE IF ahead_count > 0 THEN "ahead"
        ELSE IF behind_count > 0 THEN "behind"
        ELSE "synced"

\* Faulty variant of GetSyncStatus: equal commit ids are not answered at once,
\* the counts decide.
GetSyncStatusNoShortcut(a) ==
    IF a.fetch \in Exceptions THEN SyncExcept(a.fetch)
    ELSE IF a.check \in Exceptions THEN SyncExcept(a.check)
    ELSE IF a.check # "ok" THEN "no_remote"
    ELSE IF a.local \in Exceptions THEN SyncExcept(a.local)
    ELSE IF a.remote \in Exceptions THEN SyncExcept(a.remote)
    ELSE IF a.local = "fail" \/ a.remote = "fail" THEN "unknown"
    ELSE IF a.ahead \in Exceptions THEN SyncExcept(a.ahead)
    ELSE IF a.behind \in Exceptions THEN SyncExcept(a.behind)
    ELSE IF a.ahead # "fail" /\ a.behind # "fail" THEN SyncVerdict(a.ahead, a.behind)
    ELSE "unknown"

\* Lines 326-412.
GetSyncStatus(a) ==
    IF a.fetch \in Exceptions THEN SyncExcept(a.fetch)
    ELSE IF a.check \in Exceptions THEN SyncExcept(a.check)
    ELSE IF a.check # "ok" THEN "no_remote"
    ELSE IF a.local \in Exceptions THEN SyncExcept(a.local)
    ELSE IF a.remote \in Exceptions THEN SyncExcept(a.remote)
    ELSE IF a.local = "fail" \/ a.remote = "fail" THEN "unknown"
    ELSE IF a.local = a.remote THEN "synced"
    ELSE IF a.ahead \in Exceptions THEN SyncExcept(a.ahead)
    ELSE IF a.behind \in Exceptions THEN SyncExcept(a.behind)
    ELSE IF a.ahead # "fail" /\ a.behind # "fail" THEN SyncVerdict(a.ahead, a.behind)
    ELSE "unknown"

\* Lines 326-412: the git calls one run of get_sync_status makes, in order.
\* A call that raises ends the run; both commit ids are read before their exit
\* codes are looked at (lines 353-372), and so are both counts (lines 379-394).
SyncCalls(a) ==
    IF a.fetch \in Exceptions THEN <<"fetch">>
    ELSE IF a.check \in Exceptions \/ a.check # "ok" THEN <<"fetch", "check">>
    ELSE IF a.local \in Exceptions THEN <<"fetch", "check", "local">>
    ELSE IF \/ a.remote \in Exceptions
            \/ a.local = "fail" \/ a.remote = "fail"
            \/ a.local = a.remote
         THEN <<"fetch", "check", "local", "remote">>
    ELSE IF a.ahead \in Exceptions
         THEN <<"fetch", "check", "local", "remote", "ahead">>
    ELSE <<"fetch", "check", "local", "remote", "ahead", "behind">>

NoSyncArgs == [fetch |-> "ok", check |-> "ok", local |-> "c1", remote |-> "c1",
               ahead |-> "0", behind |-> "0"]
NoSyncRes  == [done |-> FALSE, status |-> "", calls |-> <<>>]

----------------------------------------------------------------------------
(* GitRepoScanner.run *)

\* What os.scandir finds in parent_dir: a directory with a .git directory at
\* its top level, a directory without one (a repository nested deeper is of
\* this kind), a plain file.  Entry k of the listing has the path k.
EntryKinds == {"repo", "dir", "file"}

\* A parent directory that is missing, or one with up to MaxEntries entries.
ParentDirs ==
    {[exists |-> FALSE, entries |-> <<>>]}
    \cup {[exists |-> TRUE, entries |-> es] : es \in SeqUpTo(EntryKinds, MaxEntries)}

\* A remote address: scp-like (user@host:path) or https, with or without a
\* trailing ".git".  Host and path are the same in all of them.
Url(form, user, suffix) == [form |-> form, user |-> user, suffix |-> suffix]

EmptyUrl == Url("empty", "", FALSE)

RemoteUrls == {Url("scp", "git", TRUE), Url("scp", "bob", TRUE), Url("https", "", TRUE)}

\* The answers of the sub-queries of lines 247-316: the stdout of a call that
\* exited with code 0, "fail" for a non-zero exit code (check=True turns it
\* into CalledProcessError), "OSError" for a call that cannot be started.
BranchAnswers == {"main", "fail", "OSError"}
StatusAnswers == {"", " M f", "fail", "OSError"}
LogAnswers    == {"d|a", "d", "fail", "OSError"}
UrlAnswers ==
    {[rc |-> "ok", out |-> u] : u \in RemoteUrls}
    \cup {[rc |-> "fail", out |-> EmptyUrl], [rc |-> "OSError", out |-> EmptyUrl]}

\* The answers get_sync_status meets in a scan: an up-to-date repository, a
\* diverged one, one where every git call exits non-zero, one whose commit id
\* cannot be read, a probe that times out, a call that cannot be started.
ScanSyncAnswers ==
    { [fetch |-> "ok", check |-> "ok", local |-> "c1", remote |-> "c1",
       ahead |-> "0", behind |-> "0"],
      [fetch |-> "ok", check |-> "ok", local |-> "c1", remote |-> "c2",
       ahead |-> "2", behind |-> "2"],
      [fetch |-> "fail", check |-> "fail", local |-> "fail", remote |-> "fail",
       ahead |-> "fail", behind |-> "fail"],
      [fetch |-> "ok", check |-> "ok", local |-> "fail", remote |-> "c1",
       ahead |-> "0", behind |-> "0"],
      [fetch |-> "TimeoutExpired", check |-> "ok", local |-> "c1", remote |-> "c1",
       ahead |-> "0", behind |-> "0"],
      [fetch |-> "ok", check |-> "OSError", local |-> "c1", remote |-> "c1",
       ahead |-> "0", behind |-> "0"] }

\* Line 288: text.strip().split('|').
SplitLog(text) ==
    CASE text = "d|a" -> <<"d", "a">>
      [] text = "d"   -> <<"d">>
      [] OTHER        -> <<"">>

\* Lines 305-314: an address that starts with "git@" becomes an https URL
\* without the ".git" suffix; every other address is kept.
ConvertUrl(u) ==
    IF u.form = "scp" /\ u.user = "git" THEN Url("https", "", FALSE) ELSE u

QueryNames == {"branch", "status", "sync", "log", "url"}

NoDescriptor ==
    [branch |-> "unset", status |-> "unset", sync_status |-> "unset",
     last_commit |-> "unset", author |-> "unset", remote_url |-> EmptyUrl]

NoAnswers ==
    [branch |-> "unset", status |-> "unset", sync |-> NoSyncArgs, log |-> "unset",
     url |-> [rc |-> "unset", out |-> EmptyUrl]]

NoStop == [done |-> -1, checked |-> FALSE, busy |-> FALSE]

\* The path the loop of line 237 is at.
CurrentSubdir == subdirs[scan_i + 1]

FoundEv(r) == Ev("found", r, "", <<>>)

\* Lines 234-235: the paths of the entries that are directories, in listing
\* order; os.scandir raises when parent_dir does not exist, which the handler
\* of line 320 prints.
ScanList ==
    /\ scan_pc = "start"
    /\ IF parent_dir.exists
       THEN LET IsDir(k) == parent_dir.entries[k] # "file"
            IN  /\ subdirs' = SelectSeq([k \in DOMAIN parent_dir.entries |-> k], IsDir)
                /\ scan_pc' = "loop"
       ELSE /\ subdirs' = subdirs
            /\ scan_pc' = "finally"
    /\ UNCHANGED <<parent_dir, scan_running, scan_i, descriptor, answers, inflight,
                   scan_trace, scan_stop>>

\* Faulty variant of ScanLoopTop: the running flag is not looked at.
ScanLoopTopNoFlag ==
    /\ scan_pc = "loop"
    /\ scan_pc' = IF scan_i < Len(subdirs) THEN "isgit" ELSE "finally"
    /\ UNCHANGED <<parent_dir, scan_running, subdirs, scan_i, descriptor, answers,
                   inflight, scan_trace, scan_stop>>

\* Lines 237-239: the next subdirectory, unless the list is exhausted or the
\* flag is down.
ScanLoopTop ==
    /\ scan_pc = "loop"
    /\ scan_pc' = IF scan_i < Len(subdirs) /\ scan_running THEN "isgit" ELSE "finally"
    /\ UNCHANGED <<parent_dir, scan_running, subdirs, scan_i, descriptor, answers,
                   inflight, scan_trace, scan_stop>>

\* Lines 242-243: a subdirectory without a .git directory is passed over.
ScanIsGit ==
    /\ scan_pc = "isgit"
    /\ IF parent_dir.entries[CurrentSubdir] = "repo"
       THEN scan_pc' = "branch" /\ scan_i' = scan_i
       ELSE scan_pc' = "loop" /\ scan_i' = scan_i + 1
    /\ UNCHANGED <<parent_dir, scan_running, subdirs, descriptor, answers, inflight,
                   scan_trace, scan_stop>>

\* The subprocess of the next sub-query is started in the repository.
ScanStart ==
    /\ scan_pc \in QueryNames
    /\ inflight = "none"
    /\ inflight' = scan_pc
    /\ scan_trace' = Append(scan_trace, Ev("query", CurrentSubdir, "", <<scan_pc>>))
    /\ UNCHANGED <<parent_dir, scan_running, scan_pc, subdirs, scan_i, descriptor,
                   answers, scan_stop>>

\* Lines 247-259.  An exception that is no SubprocessError leaves the
\* iteration and the loop for the handler of line 320, here and in the
\* sub-queries below.
ScanBranch ==
    /\ scan_pc = "branch" /\ inflight = "branch"
    /\ \E a \in BranchAnswers :
          /\ answers' = [answers EXCEPT !.branch = a]
          /\ IF a = "OSError"
             THEN /\ scan_pc' = "finally" /\ descriptor' = descriptor
                  /\ scan_i' = scan_i + 1
             ELSE /\ scan_pc' = "status" /\ scan_i' = scan_i
                  /\ descriptor' = [descriptor EXCEPT
                         !.branch = IF a = "fail" THEN "unknown" ELSE a]
    /\ inflight' = "none"
    /\ UNCHANGED <<parent_dir, scan_running, subdirs, scan_trace, scan_stop>>

\* Lines 261-273.
ScanStatus ==
    /\ scan_pc = "status" /\ inflight = "status"
    /\ \E a \in StatusAnswers :
          /\ answers' = [answers EXCEPT !.status = a]
          /\ IF a = "OSError"
             THEN /\ scan_pc' = "finally" /\ descriptor' = descriptor
                  /\ scan_i' = scan_i + 1
             ELSE /\ scan_pc' = "sync" /\ scan_i' = scan_i
                  /\ descriptor' = [descriptor EXCEPT
                         !.status = IF a = "fail" THEN "unknown"
                                    ELSE IF a = "" THEN "clean" ELSE "modified"]
    /\ inflight' = "none"
    /\ UNCHANGED <<parent_dir, scan_running, subdirs, scan_trace, scan_stop>>

\* Line 276: the call of get_sync_status is inside no try block but the outer
\* one of run().
ScanSync ==
    /\ scan_pc = "sync" /\ inflight = "sync"
    /\ \E a \in ScanSyncAnswers :
          /\ answers' = [answers EXCEPT !.sync = a]
          /\ IF GetSyncStatus(a) = "EXCEPTION"
             THEN /\ scan_pc' = "finally" /\ descriptor' = descriptor
                  /\ scan_i' = scan_i + 1
             ELSE /\ scan_pc' = "log" /\ scan_i' = scan_i
                  /\ descriptor' = [descriptor EXCEPT !.sync_status = GetSyncStatus(a)]
    /\ inflight' = "none"
    /\ UNCHANGED <<parent_dir, scan_running, subdirs, scan_trace, scan_stop>>

\* Lines 278-293.
ScanLog ==
    /\ scan_pc = "log" /\ inflight = "log"
    /\ \E a \in LogAnswers :
          /\ answers' = [answers EXCEPT !.log = a]
          /\ IF a = "OSError"
             THEN /\ scan_pc' = "finally" /\ descriptor' = descriptor
                  /\ scan_i' = scan_i + 1
             ELSE /\ scan_pc' = "url" /\ scan_i' = scan_i
                  /\ LET commit_info == SplitLog(a)
                     IN  descriptor' = [descriptor EXCEPT
                             !.last_commit = IF a = "fail" THEN "" ELSE commit_info[1],
                             !.author = IF a # "fail" /\ Len(commit_info) > 1
                                        THEN commit_info[2] ELSE ""]
    /\ inflight' = "none"
    /\ UNCHANGED <<parent_dir, scan_running, subdirs, scan_trace, scan_stop>>

\* Lines 295-318: the remote URL, then repo_found_signal with the eight
\* fields, and on to the next subdirectory.
ScanUrl ==
    /\ scan_pc = "url" /\ inflight = "url"
    /\ \E a \in UrlAnswers :
          /\ answers' = [answers EXCEPT !.url = a]
          /\ IF a.rc = "OSError"
             THEN /\ scan_pc' = "finally"
                  /\ scan_i' = scan_i + 1
                  /\ UNCHANGED <<descriptor, scan_trace>>
             ELSE /\ scan_pc' = "loop"
                  /\ descriptor' = [descriptor EXCEPT
                         !.remote_url = IF a.rc = "fail" THEN EmptyUrl
                                        ELSE ConvertUrl(a.out)]
                  /\ scan_i' = scan_i + 1
                  /\ scan_trace' = Append(scan_trace, FoundEv(CurrentSubdir))
    /\ inflight' = "none"
    /\ UNCHANGED <<parent_dir, scan_running, subdirs, scan_stop>>

\* Faulty variant of ScanFinally: finished_signal only after a loop that ended
\* by itself.
ScanFinallyUnlessStopped ==
    /\ scan_pc = "finally"
    /\ scan_pc' = "done"
    /\ scan_trace' = IF scan_running THEN Append(scan_trace, FinishedEv) ELSE scan_trace
    /\ UNCHANGED <<parent_dir, scan_running, subdirs, scan_i, descriptor, answers,
                   inflight, scan_stop>>

\* Lines 320-324: whatever ended the try block, finished_signal is emitted.
ScanFinally ==
    /\ scan_pc = "finally"
    /\ scan_pc' = "done"
    /\ scan_trace' = Append(scan_trace, FinishedEv)
    /\ UNCHANGED <<parent_dir, scan_running, subdirs, scan_i, descriptor, answers,
                   inflight, scan_stop>>

\* Lines 414-415, called from the caller's thread while the scanner runs
\* (scan_repositories lines 667-668, closeEvent lines 1100-1101).  The history
\* keeps the number of iterations that were over, whether the flag check of
\* the next one had passed and whether one of its sub-queries had been started.
ScanStop ==
    /\ scan_pc # "done"
    /\ scan_running
    /\ scan_running' = FALSE
    /\ scan_stop' =
          [done    |-> scan_i,
           checked |-> scan_pc \in {"isgit"} \cup QueryNames,
           busy    |-> scan_pc \in QueryNames /\ (scan_pc # "branch" \/ inflight # "none")]
    /\ UNCHANGED <<parent_dir, scan_pc, subdirs, scan_i, descriptor, answers,
                   inflight, scan_trace>>

\* A scanner thread that was started on some parent directory.
ScanInit ==
    /\ parent_dir \in ParentDirs
    /\ scan_running = TRUE
    /\ scan_pc = "start"
    /\ subdirs = <<>>
    /\ scan_i = 0
    /\ descriptor = NoDescriptor
    /\ answers = NoAnswers
    /\ inflight = "none"
    /\ scan_trace = <<>>
    /\ scan_stop = NoStop

\* No scanner is running.
ScanIdle ==
    /\ parent_dir = [exists |-> FALSE, entries |-> <<>>]
    /\ scan_running = TRUE
    /\ scan_pc = "idle"
    /\ subdirs = <<>>
    /\ scan_i = 0
    /\ descriptor = NoDescriptor
    /\ answers = NoAnswers
    /\ inflight = "none"
    /\ scan_trace = <<>>
    /\ scan_stop = NoStop

----------------------------------------------------------------------------
(* GitBatchManager: the UI thread and the threads it starts *)

\* The repositories of the directory the user scans; path k is repository k.
AppRepos == [k \in 1..MaxAppRepos |-> k]

\* A QThread of the program.  Its run() is followed one repository at a time:
\* pc is "loop" at the flag check, "cmd" while the external commands of the
\* repository list[idx + 1] run one after the other, "finish" before
\* finished_signal is emitted, "exit" until run() has returned, "ended"
\* afterwards (isRunning() is then False).
Thread(kind, list) ==
    [kind |-> kind, list |-> list, idx |-> 0, running |-> TRUE, pc |-> "loop"]

\* QThread.isRunning() of the thread a field refers to.
IsRunning(t) == t # 0 /\ threads[t].pc # "ended"

\* A queued signal of the thread src.
Signal(sig, path, src) == [sig |-> sig, path |-> path, src |-> src]

NoPending == [op |-> "", sel |-> <<>>]

\* Lines 237-239 and 46-48: the flag check at the top of an iteration.
ThreadLoop(t) ==
    /\ threads[t].pc = "loop"
    /\ threads' = [threads EXCEPT ![t].pc =
           IF threads[t].idx < Len(threads[t].list) /\ threads[t].running
           THEN "cmd" ELSE "finish"]
    /\ UNCHANGED <<ui, pending, repo_table, repositories, buttons_enabled,
                   git_worker, scanner, events>>

\* Lines 241-318 and 50-138: the commands of one repository have ended.  The
\* scanner emits repo_found_signal, or an exception takes it out of the loop
\* (line 320); the worker goes on to the next repository.
ThreadEndRepo(t) ==
    /\ threads[t].pc = "cmd"
    /\ \E found \in BOOLEAN :
          /\ threads[t].kind = "worker" => found
          /\ threads' = [threads EXCEPT ![t].pc = IF found THEN "loop" ELSE "finish",
                                        ![t].idx = @ + 1]
          /\ events' = IF threads[t].kind = "scanner" /\ found
                       THEN Append(events,
                                Signal("repo_found", threads[t].list[threads[t].idx + 1], t))
                       ELSE events
    /\ UNCHANGED <<ui, pending, repo_table, repositories, buttons_enabled,
                   git_worker, scanner>>

\* Lines 323-324 and 140: finished_signal, queued for the UI thread.
ThreadFinish(t) ==
    /\ threads[t].pc = "finish"
    /\ threads' = [threads EXCEPT ![t].pc = "exit"]
    /\ events' = Append(events,
           Signal(IF threads[t].kind = "scanner" THEN "scan_finished"
                  ELSE "operation_finished", 0, t))
    /\ UNCHANGED <<ui, pending, repo_table, repositories, buttons_enabled,
                   git_worker, scanner>>

\* run() returns and the thread ends.
ThreadExit(t) ==
    /\ threads[t].pc = "exit"
    /\ threads' = [threads EXCEPT ![t].pc = "ended"]
    /\ UNCHANGED <<ui, pending, repo_table, repositories, buttons_enabled,
                   git_worker, scanner, events>>

\* Lines 645-669, on a click on select_folder_btn: the map and the table are
\* cleared, a scanner that is still running is told to stop, and the UI
\* thread waits for it.
ScanRepositories ==
    /\ ui = "idle"
    /\ buttons_enabled
    /\ Len(threads) < MaxThreads
    /\ repositories' = {}
    /\ repo_table' = <<>>
    /\ threads' = IF IsRunning(scanner)
                  THEN [threads EXCEPT ![scanner].running = FALSE]
                  ELSE threads
    /\ ui' = "scan_wait"
    /\ UNCHANGED <<pending, buttons_enabled, git_worker, scanner, events>>

\* Lines 669-674: wait() has returned; the new scanner is created and started.
ScanStartNew ==
    /\ ui = "scan_wait"
    /\ ~IsRunning(scanner)
    /\ threads' = Append(threads, Thread("scanner", AppRepos))
    /\ scanner' = Len(threads) + 1
    /\ ui' = "idle"
    /\ UNCHANGED <<pending, repo_table, repositories, buttons_enabled, git_worker,
                   events>>

\* Lines 676-691, slot of repo_found_signal.
AddRepository(path) ==
    /\ repositories' = repositories \cup {path}
    /\ repo_table' = Append(repo_table, path)
    /\ UNCHANGED buttons_enabled

\* Lines 773-776, slot of the scanner's finished_signal.
ScanFinished == UNCHANGED <<repositories, repo_table, buttons_enabled>>

\* Lines 887-891.
SetButtonsEnabled(enabled) == buttons_enabled' = enabled

\* Lines 882-885, slot of the worker's finished_signal.
OperationFinished ==
    /\ SetButtonsEnabled(TRUE)
    /\ UNCHANGED <<repositories, repo_table>>

\* The event loop of the UI thread, or the one of the warning box it has
\* open, hands the oldest queued signal to its slot.
Deliver ==
    /\ ui \in {"idle", "warning"}
    /\ events # <<>>
    /\ LET e == Head(events)
       IN  CASE e.sig = "repo_found"    -> AddRepository(e.path)
             [] e.sig = "scan_finished" -> ScanFinished
             [] OTHER                   -> OperationFinished
    /\ events' = Tail(events)
    /\ UNCHANGED <<ui, pending, threads, git_worker, scanner>>

\* Lines 800-812: the paths of the rows the user left checked, in row order.
SelectedRepos(checked) ==
    LET IsChecked(k) == k \in checked
        rows == SelectSeq([k \in DOMAIN repo_table |-> k], IsChecked)
    IN  [k \in DOMAIN rows |-> repo_table[rows[k]]]

\* Lines 814-821, on a click on pull_btn or push_btn when no row is checked:
\* the warning box is shown and nothing else is done.
BatchOperationEmpty ==
    /\ ui = "idle"
    /\ buttons_enabled
    /\ SelectedRepos({}) = <<>>
    /\ ui' = "warning"
    /\ UNCHANGED <<pending, repo_table, repositories, buttons_enabled, threads,
                   git_worker, scanner, events>>

\* Line 821: the user has closed the warning box and batch_operation returns.
WarningClosed ==
    /\ ui = "warning"
    /\ ui' = "idle"
    /\ UNCHANGED <<pending, repo_table, repositories, buttons_enabled, threads,
                   git_worker, scanner, events>>

\* Faulty variant of BatchOperation: the buttons are left enabled.
BatchOperationButtonsLeft ==
    /\ ui = "idle"
    /\ buttons_enabled
    /\ Len(threads) < MaxThreads
    /\ \E checked \in SUBSET DOMAIN repo_table, op \in Operations :
          /\ checked # {}
          /\ SetButtonsEnabled(TRUE)
          /\ pending' = [op |-> op, sel |-> SelectedRepos(checked)]
          /\ threads' = IF IsRunning(git_worker)
                        THEN [threads EXCEPT ![git_worker].running = FALSE]
                        ELSE threads
          /\ ui' = "batch_wait"
    /\ UNCHANGED <<repo_table, repositories, git_worker, scanner, events>>

\* Lines 814-847, on a click on pull_btn or push_btn with checked rows: the
\* buttons are disabled, a worker that is still running is told to stop, and
\* the UI thread waits for it.
BatchOperation ==
    /\ ui = "idle"
    /\ buttons_enabled
    /\ Len(threads) < MaxThreads
    /\ \E checked \in SUBSET DOMAIN repo_table, op \in Operations :
          /\ checked # {}
          /\ SetButtonsEnabled(FALSE)
          /\ pending' = [op |-> op, sel |-> SelectedRepos(checked)]
          /\ threads' = IF IsRunning(git_worker)
                        THEN [threads EXCEPT ![git_worker].running = FALSE]
                        ELSE threads
          /\ ui' = "batch_wait"
    /\ UNCHANGED <<repo_table, repositories, git_worker, scanner, events>>

\* Faulty variant of BatchStartNew: the previous worker is not waited for.
BatchStartNewNoWait ==
    /\ ui = "batch_wait"
    /\ threads' = Append(threads, Thread("worker", pending.sel))
    /\ git_worker' = Len(threads) + 1
    /\ pending' = NoPending
    /\ ui' = "idle"
    /\ UNCHANGED <<repo_table, repositories, buttons_enabled, scanner, events>>

\* Lines 847-853: wait() has returned; the new worker is created and started.
BatchStartNew ==
    /\ ui = "batch_wait"
    /\ ~IsRunning(git_worker)
    /\ threads' = Append(threads, Thread("worker", pending.sel))
    /\ git_worker' = Len(threads) + 1
    /\ pending' = NoPending
    /\ ui' = "idle"
    /\ UNCHANGED <<repo_table, repositories, buttons_enabled, scanner, events>>

\* Lines 1093-1098, when the window is closed: a running worker is told to
\* stop and waited for.
CloseEvent ==
    /\ ui = "idle"
    /\ threads' = IF IsRunning(git_worker)
                  THEN [threads EXCEPT ![git_worker].running = FALSE]
                  ELSE threads
    /\ ui' = "close_worker"
    /\ UNCHANGED <<pending, repo_table, repositories, buttons_enabled, git_worker,
                   scanner, events>>

\* Lines 1098-1102: then a running scanner is told to stop and waited for.
CloseScanner ==
    /\ ui = "close_worker"
    /\ ~IsRunning(git_worker)
    /\ threads' = IF IsRunning(scanner)
                  THEN [threads EXCEPT ![scanner].running = FALSE]
                  ELSE threads
    /\ ui' = "close_scanner"
    /\ UNCHANGED <<pending, repo_table, repositories, buttons_enabled, git_worker,
                   scanner, events>>

\* Lines 1102-1107: the window is closed and the program ends.
Closed ==
    /\ ui = "close_scanner"
    /\ ~IsRunning(scanner)
    /\ ui' = "closed"
    /\ UNCHANGED <<pending, repo_table, repositories, buttons_enabled, threads,
                   git_worker, scanner, events>>

\* Lines 420-439 and 631-632: the window after __init__, without a last
\* directory or with the start-up scan of it under way.
AppInit ==
    /\ ui = "idle"
    /\ pending = NoPending
    /\ repo_table = <<>>
    /\ repositories = {}
    /\ buttons_enabled = TRUE
    /\ git_worker = 0
    /\ events = <<>>
    /\ \/ threads = <<>> /\ scanner = 0
       \/ threads = <<Thread("scanner", AppRepos)>> /\ scanner = 1

\* No window.
AppIdle ==
    /\ ui = "none"
    /\ pending = NoPending
    /\ repo_table = <<>>
    /\ repositories = {}
    /\ buttons_enabled = TRUE
    /\ git_worker = 0
    /\ scanner = 0
    /\ events = <<>>
    /\ threads = <<>>

----------------------------------------------------------------------------
(* GitWorker.run *)

\* The outcomes a streamed command takes in a batch run: Popen raises; exit 0
\* with a line on stdout; exit non-zero with a permission error on stderr.
\* (SpecExec below runs _execute_git_command on every bounded outcome.)
WorkerCmdOutcomes ==
    { CmdOutcome(TRUE,  0, <<>>, <<>>, 0),
      CmdOutcome(FALSE, 0, <<LinePlain>>, <<>>, 1),
      CmdOutcome(FALSE, 1, <<>>, <<LinePermission>>, 0) }

\* Lines 51-55: what an iteration emits before its first subprocess.
IterHead(r, total) ==
    << ProgressEv(r, total),
       Update(r, "info", <<"Starting operation">>),
       Update(r, "info", <<"Working directory">>) >>

\* Lines 135-138: the handler of the per-repository try block.
ExcHandler(r) ==
    << Update(r, "error", <<"Exception occurred">>),
       Update(r, "error", <<"operation failed due to exception">>) >>

\* Faulty variant of NextRepo: the loop does not advance.
NextRepoStay ==
    /\ i' = i
    /\ pc' = "loop"
    /\ current_branch' = "unset"
    /\ before_commit' = "unset"
    /\ after_commit' = "unset"
    /\ success' = "unset"

\* The end of an iteration of the for loop (falling off the body, continue,
\* or the end of the handler).  The locals of the iteration are dead from
\* here on: the next iteration assigns each of them before it reads it.
NextRepo ==
    /\ i' = i + 1
    /\ pc' = "loop"
    /\ current_branch' = "unset"
    /\ before_commit' = "unset"
    /\ after_commit' = "unset"
    /\ success' = "unset"

\* The iteration goes on at position p with the locals br, bc, ac, ok.
Goto(p, br, bc, ac, ok) ==
    /\ i' = i
    /\ pc' = p
    /\ current_branch' = br
    /\ before_commit' = bc
    /\ after_commit' = ac
    /\ success' = ok

\* Faulty variant of LoopTop: the running flag is not read.
LoopTopNoFlag ==
    /\ pc = "loop"
    /\ pc' = IF i < Len(repos) THEN "body" ELSE "finish"
    /\ UNCHANGED <<repos, operation, running, i, current_branch, before_commit,
                   after_commit, success, trace, stopIdx>>

\* Lines 46-48: the for statement takes the next path, then the flag is read.
LoopTop ==
    /\ pc = "loop"
    /\ pc' = IF i < Len(repos) /\ running THEN "body" ELSE "finish"
    /\ UNCHANGED <<repos, operation, running, i, current_branch, before_commit,
                   after_commit, success, trace, stopIdx>>

\* Lines 50-67: progress, the two debug lines, branch and commit id queries.
Begin ==
    /\ pc = "body"
    /\ \E b \in QueryOutcomes, h \in QueryOutcomes, id \in BeforeIds :
        LET r    == i + 1
            head == IterHead(r, Len(repos)) \o <<Query(r, "branch", b)>>
            br   == IF b = "ok" THEN "main" ELSE "unknown"
            bc   == IF h = "ok" THEN id ELSE "unknown"
            evb  == <<Update(r, "info", <<"Current branch">>), Query(r, "hash", h)>>
        IN  IF b = "raise"
            THEN /\ trace' = trace \o head \o ExcHandler(r)
                 /\ NextRepo
            ELSE IF h = "raise"
            THEN /\ trace' = trace \o head \o evb \o ExcHandler(r)
                 /\ NextRepo
            ELSE /\ trace' = trace \o head \o evb
                              \o <<Update(r, "info", <<"Current commit">>)>>
                 /\ Goto(IF operation = "pull" THEN "pull" ELSE "status",
                         br, bc, after_commit, success)
    /\ UNCHANGED <<repos, operation, running, stopIdx>>

\* Faulty variant of Pull: the result of git pull is taken for True.
PullResultIgnored ==
    /\ pc = "pull"
    /\ \E oc \in WorkerCmdOutcomes :
        LET r   == i + 1
            res == ExecuteGitCommand(r, <<"git", "pull">>, oc)
        IN  /\ trace' = trace \o <<Update(r, "running", <<"Pulling changes from remote">>)>>
                              \o res.ev
            /\ Goto("post", current_branch, before_commit, after_commit, "True")
    /\ UNCHANGED <<repos, operation, running, stopIdx>>

\* Lines 69-72.
Pull ==
    /\ pc = "pull"
    /\ \E oc \in WorkerCmdOutcomes :
        LET r   == i + 1
            res == ExecuteGitCommand(r, <<"git", "pull">>, oc)
        IN  /\ trace' = trace \o <<Update(r, "running", <<"Pulling changes from remote">>)>>
                              \o res.ev
            /\ Goto("post", current_branch, before_commit, after_commit,
                    IF res.ok THEN "True" ELSE "False")
    /\ UNCHANGED <<repos, operation, running, stopIdx>>

\* Faulty variant of Status: a status query that fails ends the iteration with an
\* error.
StatusFailureIsError ==
    /\ pc = "status"
    /\ \E st \in {"changes", "empty", "fail", "raise"} :
        LET r    == i + 1
            head == <<Update(r, "running", <<"Starting push sequence">>),
                      Query(r, "status", st)>>
        IN  CASE st = "raise"   -> /\ trace' = trace \o head \o ExcHandler(r)
                                   /\ NextRepo
              [] st = "changes" -> /\ trace' = trace \o head
                                        \o <<Update(r, "info", <<"Found changes to commit">>)>>
                                   /\ Goto("add", current_branch, before_commit,
                                           after_commit, success)
              [] st = "empty"   -> /\ trace' = trace \o head
                                        \o <<Update(r, "info", <<"No local changes to commit">>)>>
                                   /\ Goto("push", current_branch, before_commit,
                                           after_commit, success)
              [] st = "fail"    -> /\ trace' = trace \o head
                                        \o <<Update(r, "error", <<"Status query failed">>)>>
                                   /\ NextRepo
    /\ UNCHANGED <<repos, operation, running, stopIdx>>

\* Faulty variant of Status: add and commit also without pending changes.
StatusEmptyAdds ==
    /\ pc = "status"
    /\ \E st \in {"changes", "empty", "fail", "raise"} :
        LET r    == i + 1
            head == <<Update(r, "running", <<"Starting push sequence">>),
                      Query(r, "status", st)>>
        IN  CASE st = "raise"   -> /\ trace' = trace \o head \o ExcHandler(r)
                                   /\ NextRepo
              [] st = "changes" -> /\ trace' = trace \o head
                                        \o <<Update(r, "info", <<"Found changes to commit">>)>>
                                   /\ Goto("add", current_branch, before_commit,
                                           after_commit, success)
              [] st = "empty"   -> /\ trace' = trace \o head
                                        \o <<Update(r, "info", <<"No local changes to commit">>)>>
                                   /\ Goto("add", current_branch, before_commit,
                                           after_commit, success)
              [] st = "fail"    -> /\ trace' = trace \o head
                                   /\ Goto("push", current_branch, before_commit,
                                           after_commit, success)
    /\ UNCHANGED <<repos, operation, running, stopIdx>>

\* Lines 74-85 and 96-97: the status query of the push sequence.
Status ==
    /\ pc = "status"
    /\ \E st \in {"changes", "empty", "fail", "raise"} :
        LET r    == i + 1
            head == <<Update(r, "running", <<"Starting push sequence">>),
                      Query(r, "status", st)>>
        IN  CASE st = "raise"   -> /\ trace' = trace \o head \o ExcHandler(r)
                                   /\ NextRepo
              [] st = "changes" -> /\ trace' = trace \o head
                                        \o <<Update(r, "info", <<"Found changes to commit">>)>>
                                   /\ Goto("add", current_branch, before_commit,
                                           after_commit, success)
              [] st = "empty"   -> /\ trace' = trace \o head
                                        \o <<Update(r, "info", <<"No local changes to commit">>)>>
                                   /\ Goto("push", current_branch, before_commit,
                                           after_commit, success)
              [] st = "fail"    -> /\ trace' = trace \o head
                                   /\ Goto("push", current_branch, before_commit,
                                           after_commit, success)
    /\ UNCHANGED <<repos, operation, running, stopIdx>>

\* Faulty variant of Add: the result of git add is ignored.
AddIgnoringFailure ==
    /\ pc = "add"
    /\ \E oc \in WorkerCmdOutcomes :
        LET r   == i + 1
            res == ExecuteGitCommand(r, <<"git", "add", ".">>, oc)
        IN  /\ trace' = trace \o <<Update(r, "running", <<"Adding all changes">>)>> \o res.ev
            /\ Goto("commit", current_branch, before_commit, after_commit, success)
    /\ UNCHANGED <<repos, operation, running, stopIdx>>

\* Lines 87-90: git add . ; on failure, continue.
Add ==
    /\ pc = "add"
    /\ \E oc \in WorkerCmdOutcomes :
        LET r   == i + 1
            res == ExecuteGitCommand(r, <<"git", "add", ".">>, oc)
        IN  /\ trace' = trace \o <<Update(r, "running", <<"Adding all changes">>)>> \o res.ev
            /\ IF res.ok
               THEN Goto("commit", current_branch, before_commit, after_commit, success)
               ELSE NextRepo
    /\ UNCHANGED <<repos, operation, running, stopIdx>>

\* Faulty variant of Commit: a failed commit leaves the loop (break for continue).
CommitBreak ==
    /\ pc = "commit"
    /\ \E oc \in WorkerCmdOutcomes :
        LET r   == i + 1
            res == ExecuteGitCommand(r, <<"git", "commit", "-m", "batch update">>, oc)
        IN  /\ trace' = trace \o <<Update(r, "running", <<"Committing changes">>)>> \o res.ev
            /\ Goto(IF res.ok THEN "push" ELSE "finish",
                    current_branch, before_commit, after_commit, success)
    /\ UNCHANGED <<repos, operation, running, stopIdx>>

\* Lines 92-95: git commit -m 'batch update' ; on failure, continue.
Commit ==
    /\ pc = "commit"
    /\ \E oc \in WorkerCmdOutcomes :
        LET r   == i + 1
            res == ExecuteGitCommand(r, <<"git", "commit", "-m", "batch update">>, oc)
        IN  /\ trace' = trace \o <<Update(r, "running", <<"Committing changes">>)>> \o res.ev
            /\ IF res.ok
               THEN Goto("push", current_branch, before_commit, after_commit, success)
               ELSE NextRepo
    /\ UNCHANGED <<repos, operation, running, stopIdx>>

\* Faulty variant of Push: after a stop() the push is left out and the run ends.
PushUnlessStopped ==
    /\ pc = "push"
    /\ IF running
       THEN \E oc \in WorkerCmdOutcomes :
               LET r   == i + 1
                   res == ExecuteGitCommand(r, <<"git", "push", "origin", current_branch>>, oc)
               IN  /\ trace' = trace \o <<Update(r, "running", <<"Pushing to remote">>)>> \o res.ev
                   /\ Goto("post", current_branch, before_commit, after_commit,
                           IF res.ok THEN "True" ELSE "False")
       ELSE /\ trace' = trace
            /\ Goto("finish", current_branch, before_commit, after_commit, success)
    /\ UNCHANGED <<repos, operation, running, stopIdx>>

\* Lines 99-101: git push origin <branch>.
Push ==
    /\ pc = "push"
    /\ \E oc \in WorkerCmdOutcomes :
        LET r   == i + 1
            res == ExecuteGitCommand(r, <<"git", "push", "origin", current_branch>>, oc)
        IN  /\ trace' = trace \o <<Update(r, "running", <<"Pushing to remote">>)>> \o res.ev
            /\ Goto("post", current_branch, before_commit, after_commit,
                    IF res.ok THEN "True" ELSE "False")
    /\ UNCHANGED <<repos, operation, running, stopIdx>>

\* Faulty variant of Changed: an id that could not be resolved counts as an id.
ChangedAnyDifference(before, after) ==
    before # after

\* Line 108: the ids differ and both were resolved.
Changed(before, after) ==
    before # after /\ before # "unknown" /\ after # "unknown"

\* Lines 114-133: the message of the success signal.
SuccessMessage(op, before, after, count) ==
    IF Changed(before, after)
    THEN IF op = "pull"
         THEN <<"Changed from", before, after, count>>
         ELSE <<"Pushed changes from", before, after>>
    ELSE <<"No new changes">>

\* Faulty variant of Post: the success report does not depend on the result of the
\* pull or push.
PostUnconditional ==
    /\ pc = "post"
    /\ \E a \in QueryOutcomes, id \in CommitIds, c \in QueryOutcomes :
          LET r     == i + 1
              ac    == IF a = "ok" THEN id ELSE "unknown"
              qa    == <<Query(r, "hash", a)>>
              qc    == <<Query(r, "count", c)>>
              count == IF c = "ok" THEN "1" ELSE "?"
              msg   == SuccessMessage(operation, before_commit, ac, count)
          IN  IF a = "raise"
              THEN /\ trace' = trace \o qa \o ExcHandler(r)
                   /\ UNCHANGED after_commit
              ELSE /\ after_commit' = ac
                   /\ IF Changed(before_commit, ac) /\ operation = "pull"
                      THEN IF c = "raise"
                           THEN trace' = trace \o qa \o qc \o ExcHandler(r)
                           ELSE trace' = trace \o qa \o qc \o <<Update(r, "success", msg)>>
                      ELSE trace' = trace \o qa \o <<Update(r, "success", msg)>>
    /\ pc' = "next"
    /\ UNCHANGED <<repos, operation, running, i, current_branch, before_commit,
                   success, stopIdx>>

\* Lines 103-133: after the pull or the push.  The step ends at "next", with
\* the locals as the iteration leaves them.
Post ==
    /\ pc = "post"
    /\ IF success = "True"
       THEN \E a \in QueryOutcomes, id \in CommitIds, c \in QueryOutcomes :
              LET r     == i + 1
                  ac    == IF a = "ok" THEN id ELSE "unknown"
                  qa    == <<Query(r, "hash", a)>>
                  qc    == <<Query(r, "count", c)>>
                  count == IF c = "ok" THEN "1" ELSE "?"
                  msg   == SuccessMessage(operation, before_commit, ac, count)
              IN  IF a = "raise"
                  THEN /\ trace' = trace \o qa \o ExcHandler(r)
                       /\ UNCHANGED after_commit
                  ELSE /\ after_commit' = ac
                       /\ IF Changed(before_commit, ac) /\ operation = "pull"
                          THEN IF c = "raise"
                               THEN trace' = trace \o qa \o qc \o ExcHandler(r)
                               ELSE trace' = trace \o qa \o qc \o <<Update(r, "success", msg)>>
                          ELSE trace' = trace \o qa \o <<Update(r, "success", msg)>>
       ELSE UNCHANGED <<trace, after_commit>>
    /\ pc' = "next"
    /\ UNCHANGED <<repos, operation, running, i, current_branch, before_commit,
                   success, stopIdx>>

\* The body of the iteration is left.
EndIteration ==
    /\ pc = "next"
    /\ NextRepo
    /\ UNCHANGED <<repos, operation, running, trace, stopIdx>>

\* Line 140.
Finish ==
    /\ pc = "finish"
    /\ trace' = Append(trace, FinishedEv)
    /\ pc' = "done"
    /\ UNCHANGED <<repos, operation, running, i, current_branch, before_commit,
                   after_commit, success, stopIdx>>

\* Lines 217-218, called from the caller's thread while the worker runs
\* (batch_operation lines 844-846, closeEvent lines 1096-1098).
Stop ==
    /\ pc # "done"
    /\ running
    /\ running' = FALSE
    /\ stopIdx' = IF pc \in {"loop", "finish"} THEN i ELSE i + 1
    /\ UNCHANGED <<repos, operation, pc, i, current_branch, before_commit,
                   after_commit, success, trace>>

WorkerInit ==
    /\ \E n \in 0..MaxRepos : repos = ReposOfLen(n)
    /\ operation \in Operations
    /\ running = TRUE
    /\ pc = "loop"
    /\ i = 0
    /\ current_branch = "unset"
    /\ before_commit = "unset"
    /\ after_commit = "unset"
    /\ success = "unset"
    /\ trace = <<>>
    /\ stopIdx = -1

Init ==
    /\ WorkerInit
    /\ execArgs = NoExecArgs
    /\ execRes = NoExecRes
    /\ syncArgs = NoSyncArgs
    /\ syncRes = NoSyncRes
    /\ ScanIdle
    /\ AppIdle
    /\ RestIdle

Next ==
    \/ (LoopTop      /\ UNCHANGED <<execArgs, execRes, syncArgs, syncRes, scanVars, appVars, restVars>>)
    \/ (Begin        /\ UNCHANGED <<execArgs, execRes, syncArgs, syncRes, scanVars, appVars, restVars>>)
    \/ (Pull         /\ UNCHANGED <<execArgs, execRes, syncArgs, syncRes, scanVars, appVars, restVars>>)
    \/ (Status       /\ UNCHANGED <<execArgs, execRes, syncArgs, syncRes, scanVars, appVars, restVars>>)
    \/ (Add          /\ UNCHANGED <<execArgs, execRes, syncArgs, syncRes, scanVars, appVars, restVars>>)
    \/ (Commit       /\ UNCHANGED <<execArgs, execRes, syncArgs, syncRes, scanVars, appVars, restVars>>)
    \/ (Push         /\ UNCHANGED <<execArgs, execRes, syncArgs, syncRes, scanVars, appVars, restVars>>)
    \/ (Post         /\ UNCHANGED <<execArgs, execRes, syncArgs, syncRes, scanVars, appVars, restVars>>)
    \/ (EndIteration /\ UNCHANGED <<execArgs, execRes, syncArgs, syncRes, scanVars, appVars, restVars>>)
    \/ (Finish       /\ UNCHANGED <<execArgs, execRes, syncArgs, syncRes, scanVars, appVars, restVars>>)
    \/ (Stop         /\ UNCHANGED <<execArgs, execRes, syncArgs, syncRes, scanVars, appVars, restVars>>)

Spec == Init /\ [][Next]_vars

----------------------------------------------------------------------------
(* SpecExec: _execute_git_command on every bounded command outcome *)

ExecCommands == { <<"git", "pull">>, <<"git", "push", "origin", "main">> }

ExecOutcomes ==
    { CmdOutcome(TRUE, 0, <<>>, <<>>, 0) }
    \cup { CmdOutcome(FALSE, rc, out, err, n) :
             rc \in {0, 1}, out \in SeqUpTo(Lines, MaxLines),
             err \in SeqUpTo(Lines, MaxLines), n \in 0..MaxLines }

\* No batch worker is running.
WorkerIdle ==
    /\ repos = <<>>
    /\ operation = "pull"
    /\ running = TRUE
    /\ pc = "idle"
    /\ i = 0
    /\ current_branch = "unset"
    /\ before_commit = "unset"
    /\ after_commit = "unset"
    /\ success = "unset"
    /\ trace = <<>>
    /\ stopIdx = -1

ExecInit ==
    /\ WorkerIdle
    /\ execArgs \in [cmd : ExecCommands, oc : ExecOutcomes]
    /\ execRes = NoExecRes
    /\ syncArgs = NoSyncArgs
    /\ syncRes = NoSyncRes
    /\ ScanIdle
    /\ AppIdle
    /\ RestIdle

\* One call of _execute_git_command(repo_path, cmd).
RunCommand ==
    /\ ~execRes.done
    /\ LET res == ExecuteGitCommand(1, execArgs.cmd, execArgs.oc)
       IN  execRes' = [done |-> TRUE, ev |-> res.ev, ok |-> res.ok]
    /\ UNCHANGED <<workerVars, execArgs, syncArgs, syncRes, scanVars, appVars, restVars>>

ExecNext == RunCommand

SpecExec == ExecInit /\ [][ExecNext]_vars

----------------------------------------------------------------------------
(* SpecSync: get_sync_status on every combination of answers *)

SyncInit ==
    /\ WorkerIdle
    /\ execArgs = NoExecArgs
    /\ execRes = NoExecRes
    /\ syncArgs \in SyncAnswers
    /\ syncRes = NoSyncRes
    /\ ScanIdle
    /\ AppIdle
    /\ RestIdle

\* One call of get_sync_status(repo_path, branch).
Classify ==
    /\ ~syncRes.done
    /\ syncRes' = [done |-> TRUE, status |-> GetSyncStatus(syncArgs),
                   calls |-> SyncCalls(syncArgs)]
    /\ UNCHANGED <<workerVars, execArgs, execRes, syncArgs, scanVars, appVars, restVars>>

SyncNext == Classify

SpecSync == SyncInit /\ [][SyncNext]_vars

----------------------------------------------------------------------------
(* SpecScan: one scanner thread racing with the caller's stop() *)

ScanSpecInit ==
    /\ WorkerIdle
    /\ execArgs = NoExecArgs
    /\ execRes = NoExecRes
    /\ syncArgs = NoSyncArgs
    /\ syncRes = NoSyncRes
    /\ ScanInit
    /\ AppIdle
    /\ RestIdle

otherThanScan == <<workerVars, execArgs, execRes, syncArgs, syncRes, appVars, restVars>>

ScanNext ==
    \/ (ScanList    /\ UNCHANGED otherThanScan)
    \/ (ScanLoopTop /\ UNCHANGED otherThanScan)
    \/ (ScanIsGit   /\ UNCHANGED otherThanScan)
    \/ (ScanStart   /\ UNCHANGED otherThanScan)
    \/ (ScanBranch  /\ UNCHANGED otherThanScan)
    \/ (ScanStatus  /\ UNCHANGED otherThanScan)
    \/ (ScanSync    /\ UNCHANGED otherThanScan)
    \/ (ScanLog     /\ UNCHANGED otherThanScan)
    \/ (ScanUrl     /\ UNCHANGED otherThanScan)
    \/ (ScanFinally /\ UNCHANGED otherThanScan)
    \/ (ScanStop    /\ UNCHANGED otherThanScan)

SpecScan == ScanSpecInit /\ [][ScanNext]_vars

----------------------------------------------------------------------------
(* SpecApp: the user's actions and the threads they start *)

AppSpecInit ==
    /\ WorkerIdle
    /\ execArgs = NoExecArgs
    /\ execRes = NoExecRes
    /\ syncArgs = NoSyncArgs
    /\ syncRes = NoSyncRes
    /\ ScanIdle
    /\ AppInit
    /\ RestIdle

otherThanApp == <<workerVars, execArgs, execRes, syncArgs, syncRes, scanVars, restVars>>

AppNext ==
    \/ (ScanRepositories /\ UNCHANGED otherThanApp)
    \/ (ScanStartNew     /\ UNCHANGED otherThanApp)
    \/ (BatchOperation   /\ UNCHANGED otherThanApp)
    \/ (BatchOperationEmpty /\ UNCHANGED otherThanApp)
    \/ (WarningClosed    /\ UNCHANGED otherThanApp)
    \/ (BatchStartNew    /\ UNCHANGED otherThanApp)
    \/ (Deliver          /\ UNCHANGED otherThanApp)
    \/ (CloseEvent       /\ UNCHANGED otherThanApp)
    \/ (CloseScanner     /\ UNCHANGED otherThanApp)
    \/ (Closed           /\ UNCHANGED otherThanApp)
    \/ ((\E t \in DOMAIN threads : ThreadLoop(t))    /\ UNCHANGED otherThanApp)
    \/ ((\E t \in DOMAIN threads : ThreadEndRepo(t)) /\ UNCHANGED otherThanApp)
    \/ ((\E t \in DOMAIN threads : ThreadFinish(t))  /\ UNCHANGED otherThanApp)
    \/ ((\E t \in DOMAIN threads : ThreadExit(t))    /\ UNCHANGED otherThanApp)

SpecApp == AppSpecInit /\ [][AppNext]_vars

----------------------------------------------------------------------------
(* SpecRuns: one run of either thread, scheduled fairly *)

\* A batch run over up to MaxRunLen repositories, or a scan of a directory
\* with up to MaxRunLen entries.
RunsInit ==
    \/ Init /\ Len(repos) <= MaxRunLen
    \/ ScanSpecInit /\ Len(parent_dir.entries) <= MaxRunLen

RunsNext == Next \/ ScanNext

\* A step of the thread's own code: every step but the caller's stop().
WorkerStep == \E p \in {"loop", "body", "pull", "status", "add", "commit", "push",
                         "post", "next", "finish"} : pc = p /\ Next /\ pc' # pc
ScanStep   == ScanNext /\ (scan_pc' # scan_pc \/ inflight' # inflight)

\* A thread that can take a step is scheduled in the end, and the external
\* command it waits for ends; nothing obliges the caller to call stop().
SpecRuns == RunsInit /\ [][RunsNext]_vars /\ WF_vars(WorkerStep) /\ WF_vars(ScanStep)

----------------------------------------------------------------------------
(* SpecPipe: the reading loop of _execute_git_command and its subprocess *)

PipeSpecInit ==
    /\ WorkerIdle
    /\ execArgs = NoExecArgs
    /\ execRes = NoExecRes
    /\ syncArgs = NoSyncArgs
    /\ syncRes = NoSyncRes
    /\ ScanIdle
    /\ AppIdle
    /\ PipeInit
    /\ TableIdle
    /\ RescanIdle
    /\ TreeIdle

otherThanPipe == <<workerVars, execArgs, execRes, syncArgs, syncRes, scanVars, appVars, tableVars, rescanVars, treeVars>>

PipeNext ==
    \/ (ProcWrite         /\ UNCHANGED otherThanPipe)
    \/ (ProcExit          /\ UNCHANGED otherThanPipe)
    \/ (ReaderPoll        /\ UNCHANGED otherThanPipe)
    \/ (ReaderStdout      /\ UNCHANGED otherThanPipe)
    \/ (ReaderStderr      /\ UNCHANGED otherThanPipe)
    \/ (ReaderCommunicate /\ UNCHANGED otherThanPipe)

SpecPipe == PipeSpecInit /\ [][PipeNext]_vars

----------------------------------------------------------------------------
(* SpecTable: the handlers that read and write the table and the map *)

TableSpecInit ==
    /\ WorkerIdle
    /\ execArgs = NoExecArgs
    /\ execRes = NoExecRes
    /\ syncArgs = NoSyncArgs
    /\ syncRes = NoSyncRes
    /\ ScanIdle
    /\ AppIdle
    /\ PipeIdle
    /\ TableInit
    /\ RescanIdle
    /\ TreeIdle

otherThanTable == <<workerVars, execArgs, execRes, syncArgs, syncRes, scanVars, appVars, pipeVars, rescanVars, treeVars>>

TableNext ==
    \/ ((\E p \in TablePaths, st \in {"clean", "modified"} : AddRow(p, st))
            /\ UNCHANGED otherThanTable)
    \/ ((\E k \in DOMAIN table_rows : ToggleRow(k)) /\ UNCHANGED otherThanTable)
    \/ ((\E f \in Filters : ApplySyncFilter(f)) /\ UNCHANGED otherThanTable)
    \/ (SelectAllRepos   /\ UNCHANGED otherThanTable)
    \/ (DeselectAllRepos /\ UNCHANGED otherThanTable)
    \/ (GetSelectedRepos /\ UNCHANGED otherThanTable)
    \/ ((\E p \in TablePaths, st \in EventStatuses : UpdateRepoStatus(p, st))
            /\ UNCHANGED otherThanTable)

SpecTable == TableSpecInit /\ [][TableNext]_vars

----------------------------------------------------------------------------
(* SpecRescan: two scans of one directory whose repositories answer alike *)

\* The answers the sub-queries give in the repeated scans: each query with one
\* answer of a healthy repository and one failure.
RescanAnswers ==
    [branch : {"unset", "main", "fail"},
     status : {"unset", "", " M f"},
     sync   : {NoSyncArgs,
               [fetch |-> "ok", check |-> "ok", local |-> "c1", remote |-> "c2",
                ahead |-> "2", behind |-> "2"],
               [fetch |-> "ok", check |-> "OSError", local |-> "c1", remote |-> "c1",
                ahead |-> "0", behind |-> "0"]},
     log    : {"unset", "d|a", "fail"},
     url    : {[rc |-> "unset", out |-> EmptyUrl],
               [rc |-> "ok", out |-> Url("scp", "git", TRUE)],
               [rc |-> "fail", out |-> EmptyUrl]}]

\* A step A of the scanner thread in a repeated scan.  The first scan meets
\* any answer and the answer is kept for the repository; the second scan
\* meets the answers the first one met.  The history keeps every descriptor
\* repo_found_signal carries.
RescanStep(A) ==
    /\ A
    /\ answers' \in RescanAnswers
    /\ IF inflight # "none" /\ inflight' = "none"
       THEN IF scan_no = 1
            THEN oracle' = [oracle EXCEPT ![CurrentSubdir][inflight] = answers'[inflight]]
            ELSE /\ answers'[inflight] = oracle[CurrentSubdir][inflight]
                 /\ oracle' = oracle
       ELSE oracle' = oracle
    /\ emitted' = IF Len(scan_trace') > Len(scan_trace)
                     /\ scan_trace'[Len(scan_trace')].k = "found"
                  THEN Append(emitted, [path |-> CurrentSubdir, d |-> descriptor'])
                  ELSE emitted
    /\ UNCHANGED <<scan_no, first_scan>>

\* Faulty variant of Rescan: the second scan goes on where the first one ended.
RescanResumes ==
    /\ scan_no = 1
    /\ scan_pc = "done"
    /\ scan_no' = 2
    /\ first_scan' = emitted
    /\ emitted' = <<>>
    /\ scan_running' = TRUE
    /\ scan_pc' = "loop"
    /\ descriptor' = NoDescriptor
    /\ answers' = NoAnswers
    /\ inflight' = "none"
    /\ scan_trace' = <<>>
    /\ scan_stop' = NoStop
    /\ UNCHANGED <<parent_dir, oracle, subdirs, scan_i>>

\* Lines 671-674 of scan_repositories, called a second time for the same
\* directory after the first scan has ended: a new GitRepoScanner (lines
\* 226-229) is started.
Rescan ==
    /\ scan_no = 1
    /\ scan_pc = "done"
    /\ scan_no' = 2
    /\ first_scan' = emitted
    /\ emitted' = <<>>
    /\ scan_running' = TRUE
    /\ scan_pc' = "start"
    /\ subdirs' = <<>>
    /\ scan_i' = 0
    /\ descriptor' = NoDescriptor
    /\ answers' = NoAnswers
    /\ inflight' = "none"
    /\ scan_trace' = <<>>
    /\ scan_stop' = NoStop
    /\ UNCHANGED <<parent_dir, oracle>>

RescanInit ==
    /\ WorkerIdle
    /\ execArgs = NoExecArgs
    /\ execRes = NoExecRes
    /\ syncArgs = NoSyncArgs
    /\ syncRes = NoSyncRes
    /\ ScanInit
    /\ Len(parent_dir.entries) <= MaxRescan
    /\ AppIdle
    /\ PipeIdle
    /\ TableIdle
    /\ scan_no = 1
    /\ oracle = [k \in DOMAIN parent_dir.entries |-> NoAnswers]
    /\ emitted = <<>>
    /\ first_scan = <<>>
    /\ TreeIdle

otherThanRescan == <<workerVars, execArgs, execRes, syncArgs, syncRes, appVars, pipeVars, tableVars, treeVars>>

RescanNext ==
    \/ (RescanStep(ScanList)    /\ UNCHANGED otherThanRescan)
    \/ (RescanStep(ScanLoopTop) /\ UNCHANGED otherThanRescan)
    \/ (RescanStep(ScanIsGit)   /\ UNCHANGED otherThanRescan)
    \/ (RescanStep(ScanStart)   /\ UNCHANGED otherThanRescan)
    \/ (RescanStep(ScanBranch)  /\ UNCHANGED otherThanRescan)
    \/ (RescanStep(ScanStatus)  /\ UNCHANGED otherThanRescan)
    \/ (RescanStep(ScanSync)    /\ UNCHANGED otherThanRescan)
    \/ (RescanStep(ScanLog)     /\ UNCHANGED otherThanRescan)
    \/ (RescanStep(ScanUrl)     /\ UNCHANGED otherThanRescan)
    \/ (RescanStep(ScanFinally) /\ UNCHANGED otherThanRescan)
    \/ (Rescan                  /\ UNCHANGED otherThanRescan)

SpecRescan == RescanInit /\ [][RescanNext]_vars

----------------------------------------------------------------------------
(* SpecTree: a batch run, the working trees and the stored statuses *)

\* What a porcelain status query finds in a working tree: nothing, or changes.
TreeStates == {"clean", "modified"}

\* The repository the worker is in.
CurrentRepo == repos[i + 1]

\* Lines 78-85: the status query of the push sequence reads the working tree;
\* it reports changes for a modified tree and none for a clean one, unless it
\* fails or raises.
TreeStatus ==
    /\ Status
    /\ LET last == trace'[Len(trace')]
       IN  /\ last.m = <<"Found changes to commit">> => tree[CurrentRepo] = "modified"
           /\ last.m = <<"No local changes to commit">> => tree[CurrentRepo] = "clean"
    /\ UNCHANGED tree

\* Lines 87-95: git add . stages every change of the working tree and leaves
\* the status as it is; a git commit that exits with 0 leaves the tree clean.
TreeAdd == Add /\ UNCHANGED tree

TreeCommit ==
    /\ Commit
    /\ tree' = IF pc' = "push" THEN [tree EXCEPT ![CurrentRepo] = "clean"] ELSE tree

\* Lines 69-72: git pull merges the remote commits and does not touch the
\* local changes of files it need not write; a pull that fails may leave a
\* merge in progress behind.
TreePull ==
    /\ Pull
    /\ IF success' = "True"
       THEN UNCHANGED tree
       ELSE \E after \in {tree[CurrentRepo], "modified"} :
               tree' = [tree EXCEPT ![CurrentRepo] = after]

\* Lines 99-101: git push does not touch the working tree.
TreePush == Push /\ UNCHANGED tree

\* The queued signals of the worker reach the UI thread in the order they
\* were emitted; update_signal goes to update_repo_status (line 850),
\* progress_signal and finished_signal go to slots that leave the table and
\* the map alone, and the records of the trace that are no signal are passed
\* over.
TreeDeliver ==
    /\ delivered < Len(trace)
    /\ LET e == trace[delivered + 1]
       IN  IF e.k = "update"
           THEN UpdateRepoStatus(repos[e.r], e.s)
           ELSE UNCHANGED tableVars
    /\ delivered' = delivered + 1
    /\ UNCHANGED <<workerVars, tree>>

\* A batch run over the rows of a finished scan, all of them checked: each
\* row shows the status the scan found in the working tree.
TreeInit ==
    /\ WorkerInit
    /\ Len(repos) <= MaxRunLen
    /\ execArgs = NoExecArgs
    /\ execRes = NoExecRes
    /\ syncArgs = NoSyncArgs
    /\ syncRes = NoSyncRes
    /\ ScanIdle
    /\ AppIdle
    /\ PipeIdle
    /\ RescanIdle
    /\ tree \in [{repos[k] : k \in DOMAIN repos} -> TreeStates]
    /\ delivered = 0
    /\ table_rows = [k \in DOMAIN repos |-> Row(repos[k], TRUE, FALSE, tree[repos[k]])]
    /\ repo_data = [q \in {repos[k] : k \in DOMAIN repos} |-> Stored(q, tree[q])]
    /\ sync_filter = "all"
    /\ selected = repos
    /\ handled = Handled("get_selected_repos", 0, "")

otherThanTree == <<execArgs, execRes, syncArgs, syncRes, scanVars, appVars, pipeVars, rescanVars>>

TreeNext ==
    \/ (LoopTop      /\ UNCHANGED <<tableVars, treeVars, otherThanTree>>)
    \/ (Begin        /\ UNCHANGED <<tableVars, treeVars, otherThanTree>>)
    \/ (TreePull     /\ UNCHANGED <<tableVars, delivered, otherThanTree>>)
    \/ (TreeStatus   /\ UNCHANGED <<tableVars, delivered, otherThanTree>>)
    \/ (TreeAdd      /\ UNCHANGED <<tableVars, delivered, otherThanTree>>)
    \/ (TreeCommit   /\ UNCHANGED <<tableVars, delivered, otherThanTree>>)
    \/ (TreePush     /\ UNCHANGED <<tableVars, delivered, otherThanTree>>)
    \/ (Post         /\ UNCHANGED <<tableVars, treeVars, otherThanTree>>)
    \/ (EndIteration /\ UNCHANGED <<tableVars, treeVars, otherThanTree>>)
    \/ (Finish       /\ UNCHANGED <<tableVars, treeVars, otherThanTree>>)
    \/ (Stop         /\ UNCHANGED <<tableVars, treeVars, otherThanTree>>)
    \/ (TreeDeliver  /\ UNCHANGED otherThanTree)

SpecTree == TreeInit /\ [][TreeNext]_vars

----------------------------------------------------------------------------
(* Properties of the batch worker (Spec) *)

Positions == DOMAIN trace

\* A success or error signal.
Terminal(e) == e.k = "update" /\ e.s \in {"success", "error"}

HasUpdate(r, s) ==
    \E k \in Positions : trace[k].k = "update" /\ trace[k].r = r /\ trace[k].s = s

TerminalCount(r) ==
    Cardinality({k \in Positions : trace[k].r = r /\ Terminal(trace[k])})

\* The git subcommands Popen was called with for position r, in order.
CmdsOf(r) ==
    LET IsCmd(e) == e.k = "cmd" /\ e.r = r
        cs       == SelectSeq(trace, IsCmd)
    IN  [k \in 1..Len(cs) |-> cs[k].m[2]]

\* The streamed command name of position r could not be started or exited
\* with a non-zero code.
CmdFailed(r, name) ==
    \E k \in Positions :
        /\ trace[k].r = r
        /\ \/ trace[k].k = "cmd"  /\ trace[k].s = "raise"
           \/ trace[k].k = "exit" /\ trace[k].s = "nonzero"
        /\ trace[k].m[2] = name

\* A subprocess.run call of run() raised while position r was processed.
QueryRaised(r) ==
    \E k \in Positions : trace[k].k = "query" /\ trace[k].r = r /\ trace[k].s = "raise"

\* The status query of position r reported pending changes.
HasChanges(r) ==
    \E k \in Positions : /\ trace[k].k = "update" /\ trace[k].r = r
                         /\ trace[k].m = <<"Found changes to commit">>

PushOrder == <<"add", "commit", "push">>

\* C1: in a push run, a repository with pending changes gets git add, git
\* commit, git push in that order; a failed add is followed by neither commit
\* nor push, a failed commit by no push, and in both cases the repository
\* has an error signal and no success signal.
C1_PushSequence ==
    operation = "push" =>
        \A r \in 1..Len(repos) :
            HasChanges(r) =>
                LET cs == CmdsOf(r)
                IN  /\ Len(cs) <= 3
                    /\ \A k \in 1..Len(cs) : cs[k] = PushOrder[k]
                    /\ CmdFailed(r, "add") =>
                          /\ cs = <<"add">>
                          /\ HasUpdate(r, "error") /\ ~HasUpdate(r, "success")
                    /\ CmdFailed(r, "commit") =>
                          /\ cs = <<"add", "commit">>
                          /\ HasUpdate(r, "error") /\ ~HasUpdate(r, "success")

\* A repository with pending changes whose commit failed after a successful
\* add, and whose iteration is over.
C1_Witness ==
    /\ operation = "push"
    /\ \E r \in 1..i : /\ HasChanges(r)
                       /\ CmdFailed(r, "commit") /\ ~CmdFailed(r, "add")
                       /\ HasUpdate(r, "error")

\* C2: the history is ordered by position in repos: every signal and every
\* command of repos[a] precedes every signal and command of repos[b] for a < b,
\* and a position is started (its progress signal emitted) once.
C2_InOrder ==
    \A k \in Positions :
        trace[k].k # "finished" =>
            /\ trace[k].r \in 1..Len(repos)
            /\ k > 1 => trace[k - 1].r <= trace[k].r
            /\ (k > 1 /\ trace[k].k = "progress") => trace[k - 1].r < trace[k].r

\* Two repositories were processed, each with a command of its own.
C2_Witness ==
    /\ pc = "done"
    /\ Len(repos) >= 2
    /\ CmdsOf(1) # <<>>
    /\ CmdsOf(2) # <<>>

\* Position r met a failure: an exception, or a streamed command that failed.
Failing(r) ==
    \/ QueryRaised(r)
    \/ \E k \in Positions :
          /\ trace[k].r = r
          /\ \/ trace[k].k = "cmd"  /\ trace[k].s = "raise"
             \/ trace[k].k = "exit" /\ trace[k].s = "nonzero"

Started(r) ==
    \E k \in Positions : trace[k].k = "progress" /\ trace[k].r = r

\* C3: when stop() is never called, the finished run has started every
\* repository of the list, whatever happened to the earlier ones, every
\* repository that met a failure or an exception has an error signal, and the
\* last signal is finished_signal.
C3_NoAbort ==
    (pc = "done" /\ running) =>
        /\ \A r \in 1..Len(repos) :
              /\ Started(r)
              /\ Failing(r) => HasUpdate(r, "error")
        /\ trace[Len(trace)].k = "finished"

\* The first repository raised an exception and the second one was still
\* processed.
C3_Witness ==
    /\ pc = "done" /\ running
    /\ Len(repos) >= 2
    /\ QueryRaised(1)
    /\ CmdsOf(2) # <<>>

\* What a step appends to the history.
Appended == SubSeq(trace', Len(trace) + 1, Len(trace'))

\* C4 (as claimed): once stop() was requested with the repositories before
\* position i + 1 completed and nothing emitted yet for position i + 1, no
\* update or progress signal is emitted any more.
C4_NoEventAfterStop ==
    [][ (~running /\ pc \in {"loop", "body", "finish"})
          => \A k \in DOMAIN Appended : Appended[k].k = "finished" ]_vars

\* C4 (amended): after stop() only the repositories whose flag check (line 47)
\* had passed when stop() was called have signals or commands: at most one
\* repository after the completed ones, none when the flag is read after the
\* request.
C4_StopSkipsRest ==
    ~running =>
        /\ \A k \in Positions : trace[k].k = "finished" \/ trace[k].r <= stopIdx
        /\ stopIdx <= i + 1
        /\ pc = "done" => stopIdx = i

\* stop() was requested after the first repository completed and before the
\* flag was read again: the run ended with the later repositories skipped.
C4_Witness ==
    /\ ~running /\ pc = "done"
    /\ stopIdx >= 1 /\ stopIdx < Len(repos)
    /\ \A r \in 1..Len(repos) : Started(r) <=> r <= stopIdx

\* C5 (as claimed): every processed repository has exactly one success or
\* error signal.
C5_ExactlyOneOutcome ==
    \A r \in 1..i : TerminalCount(r) = 1

\* C5 (amended): every processed repository has at least one success or error
\* signal and never both kinds; it has exactly one, except when a
\* subprocess.run call of run() raised inside the try block: then the handler
\* emitted two error signals.
C5_Outcome ==
    \A r \in 1..i :
        /\ ~(HasUpdate(r, "success") /\ HasUpdate(r, "error"))
        /\ IF QueryRaised(r)
           THEN TerminalCount(r) = 2 /\ HasUpdate(r, "error")
           ELSE TerminalCount(r) = 1

\* A run with a repository that succeeded and one whose try block raised.
C5_Witness ==
    /\ pc = "done"
    /\ \E r \in 1..i : HasUpdate(r, "success")
    /\ \E r \in 1..i : QueryRaised(r) /\ TerminalCount(r) = 2

LastEvent == trace[Len(trace)]

\* C7 (as claimed): a pull that exited with code 0 ends with a success signal
\* that says "No new changes" exactly when the id resolved after the pull
\* equals the id resolved before it, and reports both ids and the count
\* otherwise.
C7_NoChangeIffEqual ==
    (operation = "pull" /\ pc = "next" /\ success = "True") =>
        /\ LastEvent.k = "update" /\ LastEvent.s = "success"
        /\ LastEvent.m = <<"No new changes">> <=> before_commit = after_commit
        /\ LastEvent.m # <<"No new changes">> =>
              \E count \in {"1", "?"} :
                  LastEvent.m = <<"Changed from", before_commit, after_commit, count>>

\* C7 (amended): a pull that exited with code 0, and whose follow-up queries
\* did not raise, ends with a success signal; it says "No new changes" exactly
\* when the two ids are equal or one of them could not be resolved, and it
\* reports the before id, the after id and the count (or "?") otherwise.  When
\* a follow-up query raises, the repository gets the error signals instead.
C7_PullSuccess ==
    (operation = "pull" /\ pc = "next" /\ success = "True") =>
        IF QueryRaised(i + 1)
        THEN LastEvent.s = "error" /\ ~HasUpdate(i + 1, "success")
        ELSE /\ LastEvent.k = "update" /\ LastEvent.s = "success"
             /\ LastEvent.m = <<"No new changes">>
                   <=> \/ before_commit = after_commit
                       \/ before_commit = "unknown"
                       \/ after_commit = "unknown"
             /\ LastEvent.m # <<"No new changes">> =>
                   \E count \in {"1", "?"} :
                       LastEvent.m = <<"Changed from", before_commit, after_commit, count>>

\* A pull that moved HEAD from c1 to c2.
C7_Witness ==
    /\ operation = "pull" /\ pc = "next" /\ success = "True"
    /\ before_commit = "c1" /\ after_commit = "c2"
    /\ LastEvent.m = <<"Changed from", "c1", "c2", "1">>

\* C8: the progress signal (k, total) of the k-th repository comes after the
\* repository completed: after its commands and its success or error signal.
C8_ProgressAfterCompletion ==
    \A k \in Positions :
        trace[k].k = "progress" =>
            \E j \in 1..(k - 1) : trace[j].r = trace[k].r /\ Terminal(trace[j])

ProgressPositions == {k \in Positions : trace[k].k = "progress"}

\* C9: the n-th progress signal of a run is (n, total) with total = len(repos)
\* and 1 <= n <= total; when stop() is never called the finished run has
\* emitted total of them, the last one being (total, total).
C9_Progress ==
    /\ \A k \in ProgressPositions :
          /\ trace[k].r = Cardinality({j \in ProgressPositions : j <= k})
          /\ trace[k].t = Len(repos)
          /\ 1 <= trace[k].r /\ trace[k].r <= trace[k].t
    /\ (pc = "done" /\ running) => Cardinality(ProgressPositions) = Len(repos)

\* A finished, never stopped run of at least two repositories whose last
\* progress signal is (total, total).
C9_Witness ==
    /\ pc = "done" /\ running
    /\ Len(repos) >= 2
    /\ \E k \in ProgressPositions :
          /\ trace[k].r = Len(repos) /\ trace[k].t = Len(repos)
          /\ \A j \in ProgressPositions : j <= k

\* The status query of position r succeeded with empty output.
NoChanges(r) ==
    \E k \in Positions : /\ trace[k].k = "update" /\ trace[k].r = r
                         /\ trace[k].m = <<"No local changes to commit">>

\* The commands Popen was called with for position r, with their arguments.
FullCmdsOf(r) ==
    LET IsCmd(e) == e.k = "cmd" /\ e.r = r
        cs       == SelectSeq(trace, IsCmd)
    IN  [k \in 1..Len(cs) |-> cs[k].m]

\* C30: in a push run, a repository whose status query succeeds with empty
\* output gets neither git add nor git commit and exactly one git push origin
\* <branch>; add and commit are run only for repositories with pending
\* changes.
C30_CleanPushesOnce ==
    operation = "push" =>
        \A r \in 1..Len(repos) :
            /\ NoChanges(r) =>
                  /\ \A k \in DOMAIN CmdsOf(r) : CmdsOf(r)[k] = "push"
                  /\ Len(CmdsOf(r)) <= 1
                  /\ r <= i => /\ Len(FullCmdsOf(r)) = 1
                               /\ SubSeq(FullCmdsOf(r)[1], 1, 3) = <<"git", "push", "origin">>
            /\ (\E k \in DOMAIN CmdsOf(r) : CmdsOf(r)[k] \in {"add", "commit"}) => HasChanges(r)

\* A push run has finished a repository without pending changes, after one
\* with pending changes that was added and committed.
C30_Witness ==
    /\ operation = "push"
    /\ \E r \in 1..i : NoChanges(r) /\ CmdsOf(r) = <<"push">>
    /\ \E r \in 1..i : HasChanges(r) /\ CmdsOf(r) = <<"add", "commit", "push">>

\* The final command of an iteration: git pull, or git push.
FinalCmd == IF operation = "pull" THEN "pull" ELSE "push"

\* C33: no repository of a batch run gets both a success and an error signal,
\* and a success signal comes only after the repository's final command, git
\* pull or git push, has exited with code 0, with no command after it.
C33_SuccessMeansExitZero ==
    \A r \in 1..Len(repos) :
        /\ ~(HasUpdate(r, "success") /\ HasUpdate(r, "error"))
        /\ \A k \in Positions :
              (trace[k].k = "update" /\ trace[k].r = r /\ trace[k].s = "success") =>
                  /\ \E j \in 1..(k - 1) :
                        /\ trace[j].k = "exit" /\ trace[j].r = r
                        /\ trace[j].s = "0" /\ trace[j].m[2] = FinalCmd
                        /\ \A n \in (j + 1)..Len(trace) :
                              ~(trace[n].k = "cmd" /\ trace[n].r = r)
                  /\ CmdsOf(r)[Len(CmdsOf(r))] = FinalCmd

\* A push run with a repository that succeeded after add, commit and push,
\* and one whose push failed after a commit that succeeded.
C33_Witness ==
    /\ operation = "push"
    /\ \E r \in 1..i : /\ HasUpdate(r, "success")
                       /\ CmdsOf(r) = <<"add", "commit", "push">>
    /\ \E r \in 1..i : /\ HasUpdate(r, "error") /\ CmdFailed(r, "push")
                       /\ ~CmdFailed(r, "commit")

\* The status query of position r exited with a non-zero code: it returned,
\* and the worker reported neither changes nor their absence.
StatusFailed(r) ==
    /\ \E k \in Positions : /\ trace[k].k = "query" /\ trace[k].r = r
                            /\ trace[k].s = "returned" /\ trace[k].m = <<"status">>
    /\ ~HasChanges(r)
    /\ ~NoChanges(r)

\* C37: in a push run, a repository whose status query fails gets neither git
\* add nor git commit, git push origin <branch> is still run, and the failure
\* of the query alone gives no error signal: the repository has one only when
\* the push fails or a later query raises, and a success signal otherwise.
C37_FailedStatusStillPushes ==
    operation = "push" =>
        \A r \in 1..Len(repos) :
            StatusFailed(r) =>
                /\ \A k \in DOMAIN CmdsOf(r) : CmdsOf(r)[k] = "push"
                /\ HasUpdate(r, "error") => (CmdFailed(r, "push") \/ QueryRaised(r))
                /\ r <= i =>
                      /\ Len(FullCmdsOf(r)) = 1
                      /\ SubSeq(FullCmdsOf(r)[1], 1, 3) = <<"git", "push", "origin">>
                      /\ (~CmdFailed(r, "push") /\ ~QueryRaised(r)) => HasUpdate(r, "success")

\* A push run has finished a repository whose status query failed and whose
\* push succeeded.
C37_Witness ==
    /\ operation = "push"
    /\ \E r \in 1..i : /\ StatusFailed(r)
                       /\ CmdsOf(r) = <<"push">>
                       /\ HasUpdate(r, "success")

----------------------------------------------------------------------------
(* Properties of _execute_git_command (SpecExec) *)

\* The patterns the claim calls known failure patterns, with their hints.
KnownFailureRules == SubSeq(HintRules, 1, 4)

\* The non-blank lines the command wrote, on either stream.
Produced ==
    {execArgs.oc.out[k] : k \in DOMAIN execArgs.oc.out}
    \cup {execArgs.oc.err[k] : k \in DOMAIN execArgs.oc.err}

\* The rules of rs with a pattern that occurs in a produced line.
MatchedRules(rs) ==
    {k \in DOMAIN rs : \E line \in Produced : Contains(line, rs[k][1])}

\* C6: when the command exits non-zero, the error signal carries the hint of a
\* known failure pattern that occurs in a line the command wrote on stdout or
\* on stderr, and only the generic message when no line matches a pattern.
C6_HintFromAnyStream ==
    (execRes.done /\ ~execArgs.oc.exc /\ execArgs.oc.rc # 0) =>
        LET last == execRes.ev[Len(execRes.ev)]
        IN  /\ last.s = "error"
            /\ last.m[1] = "Command failed with code"
            /\ MatchedRules(KnownFailureRules) # {} =>
                  \E k \in MatchedRules(KnownFailureRules) :
                      last.m[2] = KnownFailureRules[k][2]
            /\ MatchedRules(HintRules) = {} => last.m[2] = ""

\* C32: the error signal of a failed command carries exactly one hint, that
\* of the first rule, in the order of HintRules, whose pattern occurs in a
\* line the command wrote, and none when no rule matches.
C32_FirstMatchingRule ==
    (execRes.done /\ ~execArgs.oc.exc /\ execArgs.oc.rc # 0) =>
        LET last    == execRes.ev[Len(execRes.ev)]
            matched == MatchedRules(HintRules)
        IN  /\ last.s = "error"
            /\ last.m = <<"Command failed with code",
                          IF matched = {} THEN ""
                          ELSE HintRules[CHOOSE k \in matched :
                                            \A k2 \in matched : k <= k2][2]>>

\* The orders in which a process can have written m lines to stdout and n
\* lines to stderr: "o" for a line of stdout, "e" for one of stderr.
WriteOrders(m, n) ==
    {w \in [1..(m + n) -> {"o", "e"}] : Cardinality({k \in 1..(m + n) : w[k] = "o"}) = m}

\* The non-blank lines in the order w of writing, each with the status its
\* signal has ("running" for stdout, "warning" for stderr).
RECURSIVE Written(_, _, _)
Written(w, out, err) ==
    IF w = <<>> THEN <<>>
    ELSE IF Head(w) = "o"
         THEN (IF NonBlank(Head(out)) THEN <<[s |-> "running", l |-> Head(out)]>> ELSE <<>>)
              \o Written(Tail(w), Tail(out), err)
         ELSE (IF NonBlank(Head(err)) THEN <<[s |-> "warning", l |-> Head(err)]>> ELSE <<>>)
              \o Written(Tail(w), out, Tail(err))

\* The output lines the signals of the call carry, in the order of emission.
Surfaced ==
    LET IsLine(e) == e.k = "update" /\ e.s \in {"running", "warning"}
        evs       == SelectSeq(execRes.ev, IsLine)
    IN  [k \in DOMAIN evs |-> [s |-> evs[k].s, l |-> evs[k].m[1]]]

\* No line of stdout repeats an earlier one, so that none is dropped.
NoRepeatedStdout ==
    \A j, k \in DOMAIN execArgs.oc.out :
        (j # k /\ NonBlank(execArgs.oc.out[j])) => execArgs.oc.out[j] # execArgs.oc.out[k]

\* C22: the signals for the output of a command come in the order in which
\* the command wrote the lines, over stdout and stderr together, whatever that
\* order was.
C22_ProductionOrder ==
    (execRes.done /\ ~execArgs.oc.exc /\ NoRepeatedStdout) =>
        \A w \in WriteOrders(Len(execArgs.oc.out), Len(execArgs.oc.err)) :
            Surfaced = Written(w, execArgs.oc.out, execArgs.oc.err)

\* How often the non-blank line l occurs in the sequence lines.
Occurrences(l, lines) == Cardinality({k \in DOMAIN lines : lines[k] = l})

SurfacedCount(status, l) ==
    Cardinality({k \in DOMAIN Surfaced : Surfaced[k] = [s |-> status, l |-> l]})

\* C23: every non-empty line of stdout has exactly one running signal and
\* every non-empty line of stderr exactly one warning signal: none is lost and
\* none emitted twice, lines that repeat an earlier text and lines read after
\* the exit included.
C23_EachLineOnce ==
    (execRes.done /\ ~execArgs.oc.exc) =>
        \A l \in Lines \ {LineBlank} :
            /\ SurfacedCount("running", l) = Occurrences(l, execArgs.oc.out)
            /\ SurfacedCount("warning", l) = Occurrences(l, execArgs.oc.err)

----------------------------------------------------------------------------
(* Properties of get_sync_status (SpecSync) *)

\* C10: get_sync_status returns no_remote whenever origin/<branch> does not
\* resolve, whatever the reachability probe and the other queries answer.
C10_NoRemote ==
    (syncRes.done /\ syncArgs.check = "fail") => syncRes.status = "no_remote"

\* The git calls the finished run made.
Ran(call) == \E k \in DOMAIN syncRes.calls : syncRes.calls[k] = call

\* The run resolved origin/<branch> and read both commit ids.
IdsResolved ==
    /\ syncRes.done
    /\ Ran("check") /\ syncArgs.check = "ok"
    /\ Ran("local") /\ syncArgs.local \in CommitIds
    /\ Ran("remote") /\ syncArgs.remote \in CommitIds

\* Both count queries ran, exited with code 0 and printed a number.
CountsRead ==
    /\ Ran("ahead") /\ Ran("behind")
    /\ syncArgs.ahead \in CountTexts /\ ParseCount(syncArgs.ahead) >= 0
    /\ syncArgs.behind \in CountTexts /\ ParseCount(syncArgs.behind) >= 0

\* C11: when origin/<branch> and both commit ids resolve, the ids differ and
\* both count queries succeed, the verdict is diverged exactly when both counts
\* are positive, ahead exactly when only the ahead count is, behind exactly
\* when only the behind count is, and synced when both are zero.
C11_CountsDecide ==
    (IdsResolved /\ syncArgs.local # syncArgs.remote /\ CountsRead) =>
        LET aheadCount  == ParseCount(syncArgs.ahead)
            behindCount == ParseCount(syncArgs.behind)
        IN  /\ syncRes.status = "diverged" <=> (aheadCount > 0 /\ behindCount > 0)
            /\ syncRes.status = "ahead" <=> (aheadCount > 0 /\ behindCount = 0)
            /\ syncRes.status = "behind" <=> (aheadCount = 0 /\ behindCount > 0)
            /\ (aheadCount = 0 /\ behindCount = 0) => syncRes.status = "synced"

C11_Witness ==
    /\ IdsResolved /\ syncArgs.local # syncArgs.remote /\ CountsRead
    /\ ParseCount(syncArgs.ahead) > 0 /\ ParseCount(syncArgs.behind) = 0
    /\ syncRes.status = "ahead"

C13_ProbeIrrelevant ==
    (syncRes.done /\ syncArgs.fetch \in {"ok", "fail", "TimeoutExpired"}) =>
        syncRes.status = GetSyncStatus([syncArgs EXCEPT !.fetch = "ok"])

\* The verdicts get_sync_status has.
SyncStatuses == {"synced", "ahead", "behind", "diverged", "no_remote", "unknown"}

\* C14: get_sync_status returns one of its six verdicts whatever the git calls
\* do, and unknown whenever a call raises, a commit id or count query exits
\* non-zero, or a count is not a number; no exception leaves it.
C14_AlwaysAVerdict ==
    syncRes.done =>
        /\ syncRes.status \in SyncStatuses
        /\ (\E k \in DOMAIN syncRes.calls : syncArgs[syncRes.calls[k]] \in Exceptions)
               => syncRes.status = "unknown"

----------------------------------------------------------------------------
(* Properties of the scanner (SpecScan) *)

ScanPositions == DOMAIN scan_trace

\* repo_found_signal was emitted for the entry r.
Found(r) == \E k \in ScanPositions : scan_trace[k].k = "found" /\ scan_trace[k].r = r

FoundCount(r) ==
    Cardinality({k \in ScanPositions : scan_trace[k].k = "found" /\ scan_trace[k].r = r})

\* The last thing the scanner did was to emit a descriptor: its fields are the
\* values of descriptor, its sub-queries answered what answers holds.
JustFound == scan_trace # <<>> /\ scan_trace[Len(scan_trace)].k = "found"

\* A git call that get_sync_status made for the classification exited with a
\* non-zero code.
SyncQueryFailed(a) ==
    \E k \in DOMAIN SyncCalls(a) :
        SyncCalls(a)[k] # "fetch" /\ a[SyncCalls(a)[k]] = "fail"

\* The entries of parent_dir that are repositories.
Repositories == {k \in DOMAIN parent_dir.entries : parent_dir.entries[k] = "repo"}

\* C15: a sub-query that fails degrades its own field to the sentinel (branch
\* unknown, status unknown, sync status unknown, last commit and author empty,
\* remote URL empty) and the other fields are as computed; a repository whose
\* sub-queries fail is still emitted, and a scan that was not stopped emits
\* every repository whatever the sub-queries of the earlier ones did.
C15_SubQueryIsolation ==
    /\ JustFound =>
          /\ descriptor.branch = IF answers.branch = "fail" THEN "unknown"
                                 ELSE answers.branch
          /\ descriptor.status = IF answers.status = "fail" THEN "unknown"
                                 ELSE IF answers.status = "" THEN "clean" ELSE "modified"
          /\ descriptor.sync_status = IF SyncQueryFailed(answers.sync) THEN "unknown"
                                      ELSE GetSyncStatus(answers.sync)
          /\ answers.log = "fail" => descriptor.last_commit = "" /\ descriptor.author = ""
          /\ answers.log # "fail" => descriptor.last_commit = SplitLog(answers.log)[1]
          /\ descriptor.remote_url = IF answers.url.rc = "fail" THEN EmptyUrl
                                     ELSE ConvertUrl(answers.url.out)
    /\ (scan_pc = "done" /\ scan_running) => \A r \in Repositories : Found(r)

\* C16: a scan that was not stopped emits exactly one descriptor for each
\* entry of parent_dir that is a directory with a .git directory at its top
\* level, and none for any other entry; no path is emitted twice.
C16_OnePerRepository ==
    /\ \A r \in DOMAIN parent_dir.entries :
          FoundCount(r) <= (IF r \in Repositories THEN 1 ELSE 0)
    /\ (scan_pc = "done" /\ scan_running) => \A r \in Repositories : FoundCount(r) = 1

\* The entries whose sub-queries or descriptor appear in the history.
Touched == {scan_trace[k].r : k \in {p \in ScanPositions : scan_trace[p].k \in {"query", "found"}}}

\* The entries of the first n iterations of the loop.
FirstSubdirs(n) == {subdirs[k] : k \in 1..n}

\* C17 (as claimed): once stop() was called, only the iterations that were
\* over and the one with a sub-query in flight at that moment have sub-queries
\* or a descriptor; the finished scanner has emitted finished_signal last and
\* has no subprocess running.
C17_OnlyInFlight ==
    /\ ~scan_running =>
          Touched \subseteq
              FirstSubdirs(scan_stop.done + (IF scan_stop.busy THEN 1 ELSE 0))
    /\ scan_pc = "done" =>
          /\ inflight = "none"
          /\ scan_trace # <<>> /\ scan_trace[Len(scan_trace)] = FinishedEv

\* C17 (amended): once stop() was called, only the iterations that were over
\* and the one whose flag check had passed at that moment have sub-queries or
\* a descriptor; the finished scanner has emitted finished_signal last and has
\* no subprocess running.
C17_StopSkipsLater ==
    /\ ~scan_running =>
          Touched \subseteq
              FirstSubdirs(scan_stop.done + (IF scan_stop.checked THEN 1 ELSE 0))
    /\ scan_pc = "done" =>
          /\ inflight = "none"
          /\ scan_trace # <<>> /\ scan_trace[Len(scan_trace)] = FinishedEv

\* A stop() that fell between the flag check and the first sub-query of a
\* repository, which was scanned and emitted all the same, while the
\* repository after it was not.
C17_Witness ==
    /\ scan_pc = "done"
    /\ ~scan_running
    /\ scan_stop.checked /\ ~scan_stop.busy
    /\ Len(subdirs) > scan_stop.done + 1
    /\ Found(subdirs[scan_stop.done + 1])
    /\ subdirs[scan_stop.done + 2] \in Repositories
    /\ ~Found(subdirs[scan_stop.done + 2])

\* C25: the descriptor of a repository whose origin has an SSH-style address
\* user@host:path, whatever the user, carries https://host/path without the
\* '.git' suffix, and the descriptor of a repository without an origin
\* carries the empty URL.
C25_SshToHttps ==
    JustFound =>
        /\ (answers.url.rc = "ok" /\ answers.url.out.form = "scp")
              => descriptor.remote_url = Url("https", "", FALSE)
        /\ answers.url.rc = "fail" => descriptor.remote_url = EmptyUrl

----------------------------------------------------------------------------
(* Properties of a run of either thread (SpecRuns) *)

\* The history of the run: the batch worker's or the scanner's.
RunTrace == IF pc # "idle" THEN trace ELSE scan_trace

RunEnded == pc = "done" \/ scan_pc = "done"

FinishedCount == Cardinality({k \in DOMAIN RunTrace : RunTrace[k] = FinishedEv})

\* C18: a batch run and a scan emit finished_signal at most once, nothing
\* after it, and have emitted it when the thread ends, on every path; every
\* run emits it in the end.
C18_FinishedOnceLast ==
    /\ [](/\ FinishedCount <= 1
          /\ FinishedCount = 1 => RunTrace[Len(RunTrace)] = FinishedEv
          /\ RunEnded => FinishedCount = 1)
    /\ <>(FinishedCount = 1)

\* A scan that an exception of get_sync_status ended, with finished_signal.
C18_Witness ==
    /\ scan_pc = "done"
    /\ GetSyncStatus(answers.sync) = "EXCEPTION"
    /\ scan_trace[Len(scan_trace)] = FinishedEv
    /\ FinishedCount = 1

\* The worker is inside the iteration of position k: the flag check of line
\* 47 has passed and the iteration has not ended.
InProgress(k) ==
    /\ i + 1 = k
    /\ pc \in {"body", "pull", "status", "add", "commit", "push", "post", "next"}

\* The iteration of position k has ended with every step of its sequence
\* that its own results call for, and with a success or error signal.
Completed(k) ==
    /\ i >= k
    /\ TerminalCount(k) >= 1
    /\ QueryRaised(k) \/
         IF operation = "pull"
         THEN CmdsOf(k) = <<"pull">>
         ELSE /\ CmdsOf(k) # <<>>
              /\ HasChanges(k) => CmdsOf(k)[1] = "add"
              /\ (HasChanges(k) /\ ~CmdFailed(k, "add")) =>
                    (Len(CmdsOf(k)) >= 2 /\ CmdsOf(k)[2] = "commit")
              /\ (~CmdFailed(k, "add") /\ ~CmdFailed(k, "commit")) =>
                    CmdsOf(k)[Len(CmdsOf(k))] = "push"

\* C31: a stop() that is called while repository k is in progress does not
\* cut k short: every remaining step of its sequence still runs and k gets
\* its success or error signal; only the repositories after k are skipped.
C31_StopDoesNotPreempt ==
    /\ \A k \in 1..(MaxRunLen + 1) : (~running /\ InProgress(k)) ~> Completed(k)
    /\ [](~running => \A n \in DOMAIN trace :
                          trace[n].k = "finished" \/ trace[n].r <= stopIdx)

\* stop() was called in a push run after the git add of the repository and
\* before its git commit.
C31_Witness ==
    /\ ~running /\ operation = "push" /\ pc = "commit"
    /\ stopIdx = i + 1
    /\ CmdsOf(i + 1) = <<"add">>

----------------------------------------------------------------------------
(* Properties of the program's threads (SpecApp) *)

\* The threads with an external command in flight in the repository path.
InFlight(path) ==
    {t \in DOMAIN threads :
        threads[t].pc = "cmd" /\ threads[t].list[threads[t].idx + 1] = path}

\* C19: at every moment at most one external command is in flight in the
\* working directory of a repository, over the scanner and the batch worker.
C19_OneCommandPerRepository ==
    \A path \in 1..MaxAppRepos : Cardinality(InFlight(path)) <= 1

\* The threads of a kind whose run() has not returned.
Alive(kind) == {t \in DOMAIN threads : threads[t].kind = kind /\ threads[t].pc # "ended"}

\* C20: at most one batch worker and at most one scanner is running at any
\* time, and it is the one git_worker or scanner refers to: a thread is
\* created only after the previous one of its kind was stopped and has ended.
C20_OneThreadPerTask ==
    /\ Alive("worker") \subseteq {git_worker}
    /\ Alive("scanner") \subseteq {scanner}

\* A second batch run was started while the first worker had not yet returned
\* from run(): the worker was told to stop and has ended, the new one runs.
C20_Witness ==
    \E t \in DOMAIN threads :
        /\ threads[t].kind = "worker"
        /\ ~threads[t].running
        /\ threads[t].pc = "ended"
        /\ git_worker > t
        /\ threads[git_worker].pc = "cmd"
        /\ ui = "idle"

\* The thread whose end the UI thread waits for inside wait(), 0 when it waits
\* for none.
Awaited ==
    CASE ui \in {"scan_wait", "close_scanner"} /\ IsRunning(scanner)   -> scanner
      [] ui \in {"batch_wait", "close_worker"} /\ IsRunning(git_worker) -> git_worker
      [] OTHER -> 0

\* C21: the UI thread never waits for an external command of a scanner or of
\* a batch worker to finish.
C21_UINeverWaits ==
    Awaited # 0 => threads[Awaited].pc # "cmd"

\* C34: after scan_repositories has cleared the table, every row that is
\* added comes from the scan it started: the repo_found signal that
\* add_repository handles was emitted by the thread scanner refers to, never
\* by a superseded scanner.
C34_OnlyCurrentScanRows ==
    [][Len(repo_table') > Len(repo_table) => Head(events).src = scanner]_vars

\* C35: the table and the map agree: no path is in two rows, and there are
\* as many rows as entries of the map.
C35_TableAgreesWithMap ==
    /\ \A a, b \in DOMAIN repo_table : repo_table[a] = repo_table[b] => a = b
    /\ Len(repo_table) = Cardinality(repositories)

\* The batch workers.
Workers == {t \in DOMAIN threads : threads[t].kind = "worker"}

\* The finished_signal of the worker t has not been handled yet: it is still
\* to be emitted, or it is queued for the UI thread.
Unhandled(t) ==
    \/ threads[t].pc \in {"loop", "cmd", "finish"}
    \/ \E n \in DOMAIN events : events[n] = Signal("operation_finished", 0, t)

\* A step in which a click starts a batch run or a scan.
StartedFromUI == ui = "idle" /\ ui' \in {"batch_wait", "scan_wait"}

\* The buttons are disabled from the click that starts a batch run until the
\* finished_signal of its worker has been handled.
DisabledUntilHandled ==
    /\ ui = "batch_wait" => ~buttons_enabled
    /\ \A t \in Workers : Unhandled(t) => ~buttons_enabled

\* A batch request without a selection starts no worker and leaves the buttons
\* enabled, from the click until the warning box is closed.
EmptySelectionDoesNothing ==
    /\ ui = "warning" => buttons_enabled
    /\ (ui = "warning" \/ ui' = "warning") =>
          /\ Len(threads') = Len(threads)
          /\ git_worker' = git_worker
          /\ pending' = pending
          /\ buttons_enabled' = buttons_enabled

\* C38 as stated: the buttons are disabled from the start of a batch run with
\* a selection until its finished_signal is handled, so that no batch run and
\* no scan is started from the UI while a batch worker is running
\* (isRunning()); a batch request without a selection starts no worker and
\* leaves the buttons enabled.
C38_NoStartWhileWorkerRuns ==
    [][/\ DisabledUntilHandled
       /\ StartedFromUI => \A t \in Workers : threads[t].pc = "ended"
       /\ EmptySelectionDoesNothing]_vars

\* C38, amended: the buttons are disabled from the start of a batch run with
\* a selection until its finished_signal is handled, so that no batch run and
\* no scan is started from the UI while a batch worker has repositories to
\* process or its finished_signal is unhandled; a worker whose signal was
\* handled may still be returning from run() when the next click comes.  A
\* batch request without a selection starts no worker and leaves the buttons
\* enabled.
C38_ButtonsLockTheRun ==
    [][/\ DisabledUntilHandled
       /\ StartedFromUI => \A t \in Workers : ~Unhandled(t)
       /\ EmptySelectionDoesNothing]_vars

\* A batch worker is inside the commands of a repository, the UI thread is in
\* its event loop, and the buttons are disabled.
C38_Witness ==
    /\ ui = "idle"
    /\ git_worker # 0
    /\ threads[git_worker].pc = "cmd"
    /\ ~buttons_enabled

----------------------------------------------------------------------------
(* Properties of the stored statuses (SpecTree) *)

\* The step is update_repo_status handling a success event of the worker, and
\* it stores the status "clean" for the repository of the event.
StoresClean ==
    /\ delivered' = delivered + 1
    /\ handled'.h = "update_repo_status"
    /\ handled'.status = "success"
    /\ handled'.path \in DOMAIN repo_data'
    /\ repo_data'[handled'.path].status = "clean"

\* C36: whenever update_repo_status stores the local status "clean" for a
\* batch success event, a porcelain status query of the repository would find
\* no uncommitted change at that moment, after a pull as after a push.
C36_CleanIsTrue ==
    [][StoresClean => tree[handled'.path] = "clean"]_vars

----------------------------------------------------------------------------
(* Properties of the reading loop (SpecPipe) *)

\* The reader is inside a readline() that cannot return: its pipe is empty and
\* still open.
ReaderWaits ==
    \/ reader = "stdout" /\ out_pipe = 0 /\ alive
    \/ reader = "stderr" /\ err_pipe = 0 /\ alive

\* The subprocess is inside a write that cannot return: the pipe is full.
ProcWaits ==
    /\ alive
    /\ script # <<>>
    /\ IF Head(script) = "o" THEN out_pipe = PipeCap ELSE err_pipe = PipeCap

\* C24: the reading loop and the subprocess never wait for each other, so the
\* call returns once the subprocess has written its lines and exited.
C24_NoDeadlock ==
    ~(ReaderWaits /\ ProcWaits)

----------------------------------------------------------------------------
(* Properties of the table handlers (SpecTable) *)

\* What update_repo_status(p, status) may change of the stored descriptors.
OnlyStatusOf(p, status) ==
    /\ DOMAIN repo_data' = DOMAIN repo_data
    /\ \A q \in DOMAIN repo_data :
          /\ q # p => repo_data'[q] = repo_data[q]
          /\ repo_data'[q].name = repo_data[q].name
          /\ repo_data'[q].branch = repo_data[q].branch
          /\ repo_data'[q].sync_status = repo_data[q].sync_status
          /\ repo_data'[q].last_commit = repo_data[q].last_commit
          /\ repo_data'[q].author = repo_data[q].author
          /\ repo_data'[q].remote_url = repo_data[q].remote_url
          /\ status \in {"info", "running", "warning", "error"}
                => repo_data'[q].status = repo_data[q].status

\* C26: update_repo_status changes nothing of a stored descriptor but the
\* status field, changes no field for an info, running, warning or error
\* event, and never changes the descriptor of a repository other than the one
\* the event names.
C26_OnlyStatusChanges ==
    [][(/\ handled'.h = "update_repo_status"
        /\ UpdateRepoStatus(handled'.path, handled'.status))
          => OnlyStatusOf(handled'.path, handled'.status)]_vars

\* A success event has changed the stored status of its repository while
\* another repository is stored beside it.
C26_Witness ==
    /\ handled.h = "update_repo_status" /\ handled.status = "success"
    /\ handled.path \in DOMAIN repo_data
    /\ repo_data[handled.path].status = "clean"
    /\ \E k \in DOMAIN table_rows :
          table_rows[k].path = handled.path /\ table_rows[k].cell = "clean"
    /\ \E q \in DOMAIN repo_data : q # handled.path /\ repo_data[q].status = "modified"

\* The rows that are checked and not hidden, in row order.
CheckedAndShown ==
    LET Is(k) == table_rows[k].checked /\ ~table_rows[k].hidden
    IN  SelectSeq([k \in DOMAIN table_rows |-> k], Is)

\* C27: get_selected_repos returns exactly the paths of the rows that are
\* checked and not hidden, in row order; a checked row that is hidden is not
\* among them.
C27_SelectedAreCheckedAndShown ==
    handled.h = "get_selected_repos" =>
        /\ Len(selected) = Len(CheckedAndShown)
        /\ \A k \in DOMAIN selected : selected[k] = table_rows[CheckedAndShown[k]].path

\* get_selected_repos has returned a row and left out a checked, hidden one.
C27_Witness ==
    /\ handled.h = "get_selected_repos"
    /\ selected # <<>>
    /\ \E k \in DOMAIN table_rows :
          /\ table_rows[k].checked /\ table_rows[k].hidden
          /\ \A j \in DOMAIN selected : selected[j] # table_rows[k].path

\* What select_all_repos (to = TRUE) and deselect_all_repos (to = FALSE) do
\* to the rows: the visible ones get the state, the hidden ones keep theirs,
\* and nothing else of a row changes.
VisibleSetTo(to) ==
    /\ DOMAIN table_rows' = DOMAIN table_rows
    /\ \A k \in DOMAIN table_rows :
          /\ table_rows'[k] = [table_rows[k] EXCEPT !.checked = table_rows'[k].checked]
          /\ table_rows'[k].checked = IF table_rows[k].hidden THEN table_rows[k].checked ELSE to

\* C28: select_all_repos and deselect_all_repos change the checkboxes of the
\* visible rows only: afterwards every visible row is checked (unchecked) and
\* every hidden row is as it was.
C28_VisibleRowsOnly ==
    [][/\ (handled'.h = "select_all_repos" /\ SelectAllRepos) => VisibleSetTo(TRUE)
       /\ (handled'.h = "deselect_all_repos" /\ DeselectAllRepos) => VisibleSetTo(FALSE)]_vars

\* select_all_repos has run over a table with a visible row and a hidden,
\* unchecked one.
C28_Witness ==
    /\ handled.h = "select_all_repos"
    /\ \E k \in DOMAIN table_rows : ~table_rows[k].hidden /\ table_rows[k].checked
    /\ \E k \in DOMAIN table_rows : table_rows[k].hidden /\ ~table_rows[k].checked

----------------------------------------------------------------------------
(* Properties of repeated scans (SpecRescan) *)

====
